---------------------------- MODULE Spec2Model ----------------------------
(***************************************************************************)
(* A model of rusty-axml's binary XML decoder: the chunk header, the chunk *)
(* type tags, the string pool and the tree builder parse_xml.              *)
(*                                                                         *)
(* The input buffer is a sequence of bytes (0..255).  A cursor position is *)
(* a 0-based offset, so the byte at offset p is buf[p + 1].  A u16 is an   *)
(* integer in 0..65535; a u32 is a record [hi, lo] of two u16 halves, so   *)
(* that 32-bit sums keep their width.  A String is the sequence of its     *)
(* Unicode scalar values.  A panic of the program is the status "panic"    *)
(* together with the kind of the failure.                                  *)
(***************************************************************************)
EXTENDS Integers, Sequences, FiniteSets, TLC

VARIABLES
    buf,                \* Cursor<Vec<u8>>: the bytes
    pos,                \* Cursor<Vec<u8>>: the position
    status,             \* "ready" | "running" | "done" | "panic"
    err,                \* the kind of the panic, "" when there is none
    arg,                \* the inputs of the call under study
    ret,                \* what the last decoder call returned
    global_strings,     \* parse_xml: Vec<String>
    namespace_prefixes, \* parse_xml: HashMap<String, String>, uri -> prefix
    nodes,              \* the XmlElement cells, nodes[1] is the root
    stack,              \* parse_xml: Vec<Rc<RefCell<XmlElement>>>, as indices
    build,              \* "debug" | "release": overflow checks on or off
    tick                \* parse_xml: the parity of the loop's iteration count

vars == <<buf, pos, status, err, arg, ret, global_strings,
          namespace_prefixes, nodes, stack, build, tick>>

\* `let x = v;` of the source: v is evaluated once and F is applied to its value
Let(v, F(_)) == CHOOSE r \in {F(x) : x \in {v}} : TRUE

-----------------------------------------------------------------------------
(* Bounds of the checked input families.                                   *)

\* header_size and chunk_size values 0..MaxSize are enumerated in SpecHeader
MaxSize == 10

\* the pools of SpecPool hold up to MaxPoolStrings entries
MaxPoolStrings == 3

-----------------------------------------------------------------------------
(* Integers of fixed width.                                                *)

U32(n) == [hi |-> n \div 65536, lo |-> n % 65536]

NoValue == [hi |-> 65535, lo |-> 65535]

\* `u as usize` / `u as u64` for a u32 below 2^31, the numbers a length or
\* a position of the model can be compared with
Small(u) == u.hi < 32768

Value(u) == u.hi * 65536 + u.lo

\* u32 < u16/usize comparison, for small right-hand sides
U32Less(u, n) == u.hi = 0 /\ u.lo < n

\* wrapping 32-bit sum, with the carry out of bit 31
Add32(a, b) ==
    LET lo == a.lo + b.lo
        hi == a.hi + b.hi + (lo \div 65536)
    IN  [hi |-> hi % 65536, lo |-> lo % 65536, carry |-> hi >= 65536]

-----------------------------------------------------------------------------
(* The byte cursor.  A read that cannot be served whole fails and leaves   *)
(* the cursor at the end of the buffer (Cursor::read_exact).               *)

ByteAt(b, p) == b[p + 1]

read_u8(b, p) ==
    IF p + 1 <= Len(b)
    THEN [ok |-> TRUE, v |-> ByteAt(b, p), pos |-> p + 1]
    ELSE [ok |-> FALSE, v |-> 0, pos |-> Len(b)]

read_u16(b, p) ==
    IF p + 2 <= Len(b)
    THEN [ok |-> TRUE, v |-> ByteAt(b, p) + 256 * ByteAt(b, p + 1), pos |-> p + 2]
    ELSE [ok |-> FALSE, v |-> 0, pos |-> Len(b)]

read_u32(b, p) ==
    IF p + 4 <= Len(b)
    THEN [ok |-> TRUE,
          v |-> [lo |-> ByteAt(b, p) + 256 * ByteAt(b, p + 1),
                 hi |-> ByteAt(b, p + 2) + 256 * ByteAt(b, p + 3)],
          pos |-> p + 4]
    ELSE [ok |-> FALSE, v |-> U32(0), pos |-> Len(b)]

-----------------------------------------------------------------------------
(* chunk_types.rs: the closed set of tags.                                 *)

ResNullType == 0
ResStringPoolType == 1
ResTableType == 2
ResXmlType == 3
ResXmlStartNamespaceType == 256
ResXmlEndNamespaceType == 257
ResXmlStartElementType == 258
ResXmlEndElementType == 259
ResXmlCDataType == 260
ResXmlLastChunkType == 383
ResXmlResourceMapType == 384
ResTablePackageType == 512
ResTableTypeType == 513
ResTableTypeSpecType == 514
ResTableLibraryType == 515

ChunkType ==
    {ResNullType, ResStringPoolType, ResTableType, ResXmlType,
     ResXmlStartNamespaceType, ResXmlEndNamespaceType,
     ResXmlStartElementType, ResXmlEndElementType, ResXmlCDataType,
     ResXmlLastChunkType, ResXmlResourceMapType, ResTablePackageType,
     ResTableTypeType, ResTableTypeSpecType, ResTableLibraryType}

\* parse_block_type with a last arm that lets an unknown tag through
parse_block_type_lenient(b, p) ==
    Let(read_u16(b, p), LAMBDA raw :
        IF ~raw.ok
        THEN [kind |-> "Err", v |-> 0, pos |-> raw.pos]
        ELSE [kind |-> "Ok", v |-> raw.v, pos |-> raw.pos])

\* Result: "Ok" with the type, "Err" when the two bytes cannot be read,
\* "Panic" on a tag outside the enumeration.
parse_block_type(b, p) ==
    Let(read_u16(b, p), LAMBDA raw :
        IF ~raw.ok
        THEN [kind |-> "Err", v |-> 0, pos |-> raw.pos]
        ELSE IF raw.v \in ChunkType
             THEN [kind |-> "Ok", v |-> raw.v, pos |-> raw.pos]
             ELSE [kind |-> "Panic", v |-> raw.v, pos |-> raw.pos])

-----------------------------------------------------------------------------
(* chunk_header.rs                                                         *)

minimum_size == 8

NoHeader == [chunk_type |-> 0, header_size |-> 0, chunk_size |-> U32(0)]

Failure(kind, tag, p) ==
    [ok |-> FALSE, err |-> kind, tag |-> tag, pos |-> p, header |-> NoHeader]

\* lines 52-69: the checks on the announced sizes, then the header
check_sizes_le(tag, hs, cs, p) ==
    IF hs <= minimum_size THEN Failure("HeaderTooSmall", 0, p)
    ELSE IF U32Less(cs, minimum_size) THEN Failure("ChunkTooSmall", 0, p)
    ELSE IF U32Less(cs, hs) THEN Failure("ChunkSmallerThanHeader", 0, p)
    ELSE [ok |-> TRUE, err |-> "", tag |-> tag, pos |-> p,
          header |-> [chunk_type |-> tag, header_size |-> hs, chunk_size |-> cs]]

check_sizes_swapped(tag, hs, cs, p) ==
    IF hs < minimum_size THEN Failure("HeaderTooSmall", 0, p)
    ELSE IF U32Less(cs, minimum_size) THEN Failure("ChunkTooSmall", 0, p)
    ELSE IF U32Less(cs, hs) THEN Failure("ChunkSmallerThanHeader", 0, p)
    ELSE [ok |-> TRUE, err |-> "", tag |-> tag, pos |-> p,
          header |-> [chunk_type |-> tag, header_size |-> cs.lo,
                      chunk_size |-> U32(hs)]]

check_sizes(tag, hs, cs, p) ==
    IF hs < minimum_size THEN Failure("HeaderTooSmall", 0, p)
    ELSE IF U32Less(cs, minimum_size) THEN Failure("ChunkTooSmall", 0, p)
    ELSE IF U32Less(cs, hs) THEN Failure("ChunkSmallerThanHeader", 0, p)
    ELSE [ok |-> TRUE, err |-> "", tag |-> tag, pos |-> p,
          header |-> [chunk_type |-> tag, header_size |-> hs, chunk_size |-> cs]]

\* the type check moved after the reads and the size checks
ChunkHeader_from_buff_sizes_first(b, p, expected_type) ==
    Let(parse_block_type(b, p), LAMBDA bt :
    IF bt.kind = "Err" THEN Failure("TruncatedInput", 0, bt.pos)
    ELSE IF bt.kind = "Panic" THEN Failure("UnknownChunkType", bt.v, bt.pos)
    ELSE
    Let(read_u16(b, bt.pos), LAMBDA hs :
    IF ~hs.ok THEN Failure("TruncatedInput", 0, hs.pos)
    ELSE
    Let(read_u32(b, hs.pos), LAMBDA cs :
    IF ~cs.ok THEN Failure("TruncatedInput", 0, cs.pos)
    ELSE Let(check_sizes(bt.v, hs.v, cs.v, cs.pos), LAMBDA r :
         IF ~r.ok THEN r
         ELSE IF bt.v # expected_type
              THEN Failure("UnexpectedChunkType", bt.v, bt.pos)
              ELSE r))))

ChunkHeader_from_buff(b, p, expected_type) ==
    Let(parse_block_type(b, p), LAMBDA bt :
    IF bt.kind = "Err" THEN Failure("TruncatedInput", 0, bt.pos)
    ELSE IF bt.kind = "Panic" THEN Failure("UnknownChunkType", bt.v, bt.pos)
    ELSE IF bt.v # expected_type THEN Failure("UnexpectedChunkType", bt.v, bt.pos)
    ELSE
    Let(read_u16(b, bt.pos), LAMBDA hs :
    IF ~hs.ok THEN Failure("TruncatedInput", 0, hs.pos)
    ELSE
    Let(read_u32(b, hs.pos), LAMBDA cs :
    IF ~cs.ok THEN Failure("TruncatedInput", 0, cs.pos)
    ELSE check_sizes(bt.v, hs.v, cs.v, cs.pos))))

-----------------------------------------------------------------------------
(* string_pool.rs                                                          *)

\* std::char::decode_utf16(iter).collect::<Result<String, _>>() over n
\* code units read one by one from the cursor; st = [pos, n, acc]
RECURSIVE decode_utf16(_, _)
decode_utf16(b, st) ==
    IF st.n = 0 THEN [ok |-> TRUE, err |-> "", pos |-> st.pos, s |-> st.acc]
    ELSE
    Let(read_u16(b, st.pos), LAMBDA u :
    IF ~u.ok THEN [ok |-> FALSE, err |-> "TruncatedInput", pos |-> u.pos, s |-> <<>>]
    ELSE IF u.v < 55296 \/ u.v > 57343
    THEN Let([pos |-> u.pos, n |-> st.n - 1, acc |-> Append(st.acc, u.v)],
             LAMBDA nx : decode_utf16(b, nx))
    ELSE IF u.v >= 56320 \/ st.n = 1
    THEN [ok |-> FALSE, err |-> "InvalidTextEncoding", pos |-> u.pos, s |-> <<>>]
    ELSE
    Let(read_u16(b, u.pos), LAMBDA w :
    IF ~w.ok THEN [ok |-> FALSE, err |-> "TruncatedInput", pos |-> w.pos, s |-> <<>>]
    ELSE IF w.v < 56320 \/ w.v > 57343
    THEN [ok |-> FALSE, err |-> "InvalidTextEncoding", pos |-> w.pos, s |-> <<>>]
    ELSE Let([pos |-> w.pos, n |-> st.n - 2,
              acc |-> Append(st.acc,
                             65536 + (u.v - 55296) * 1024 + (w.v - 56320))],
             LAMBDA nx : decode_utf16(b, nx))))

IsCont(x) == x >= 128 /\ x <= 191

\* the scalar value of the UTF-8 sequence that starts at bytes[i], with the
\* number of bytes it takes; n = 0 when there is no valid sequence there
utf8_char(bytes, i) ==
    LET b0 == bytes[i]
        b1 == bytes[i + 1]
        b2 == bytes[i + 2]
        b3 == bytes[i + 3]
        has(k) == i + k <= Len(bytes)
    IN
    IF b0 < 128 THEN [n |-> 1, c |-> b0]
    ELSE IF b0 >= 194 /\ b0 <= 223
    THEN IF has(1) /\ IsCont(b1)
         THEN [n |-> 2, c |-> (b0 - 192) * 64 + (b1 - 128)]
         ELSE [n |-> 0, c |-> 0]
    ELSE IF b0 >= 224 /\ b0 <= 239
    THEN IF /\ has(2)
            /\ IsCont(b1) /\ IsCont(b2)
            /\ (b0 = 224 => b1 >= 160)
            /\ (b0 = 237 => b1 <= 159)
         THEN [n |-> 3, c |-> (b0 - 224) * 4096 + (b1 - 128) * 64 + (b2 - 128)]
         ELSE [n |-> 0, c |-> 0]
    ELSE IF b0 >= 240 /\ b0 <= 244
    THEN IF /\ has(3)
            /\ IsCont(b1) /\ IsCont(b2) /\ IsCont(b3)
            /\ (b0 = 240 => b1 >= 144)
            /\ (b0 = 244 => b1 <= 143)
         THEN [n |-> 4, c |-> (b0 - 240) * 262144 + (b1 - 128) * 4096
                              + (b2 - 128) * 64 + (b3 - 128)]
         ELSE [n |-> 0, c |-> 0]
    ELSE [n |-> 0, c |-> 0]

\* String::from_utf8 on the bytes read; st = [i, acc], i the 1-based index
RECURSIVE from_utf8(_, _)
from_utf8(bytes, st) ==
    IF st.i > Len(bytes) THEN [ok |-> TRUE, s |-> st.acc]
    ELSE Let(utf8_char(bytes, st.i), LAMBDA ch :
         IF ch.n = 0 THEN [ok |-> FALSE, s |-> <<>>]
         ELSE Let([i |-> st.i + ch.n, acc |-> Append(st.acc, ch.c)],
                  LAMBDA nx : from_utf8(bytes, nx)))

\* axml_buff.take(n).read_to_end(..): the n bytes from p on, or as many as
\* the buffer still holds
take_read_to_end(b, p, n) ==
    LET left == IF p >= Len(b) THEN 0 ELSE Len(b) - p
        k == IF n < left THEN n ELSE left
    IN  [bytes |-> SubSeq(b, p + 1, p + k), pos |-> p + k]

\* `for _ in 0..count { read_u32 }`: the table of count offsets.  The
\* reads fail before the table is complete when the buffer does not hold
\* 4 * count bytes from p on, and the read that fails leaves the cursor at the
\* end of the buffer; no read is made for a count of 0.
read_table(b, p, count) ==
    IF count = U32(0) THEN [ok |-> TRUE, pos |-> p, v |-> <<>>]
    ELSE IF p >= Len(b) \/ count.hi >= 8192 \/ 4 * Value(count) > Len(b) - p
    THEN [ok |-> FALSE, pos |-> Len(b), v |-> <<>>]
    ELSE [ok |-> TRUE, pos |-> p + 4 * Value(count),
          v |-> [i \in 1 .. Value(count) |-> read_u32(b, p + 4 * (i - 1)).v]]

\* line 123: (initial_offset + strings_start + offset), in u32.  A debug
\* build panics when a sum overflows, a release build wraps.
current_start(initial_offset, strings_start, offset, bld) ==
    Let(Add32(U32(initial_offset), strings_start), LAMBDA s1 :
    Let(Add32([hi |-> s1.hi, lo |-> s1.lo], offset), LAMBDA s2 :
        IF bld = "debug" /\ (s1.carry \/ s2.carry)
        THEN [ok |-> FALSE, v |-> U32(0)]
        ELSE [ok |-> TRUE, v |-> [hi |-> s2.hi, lo |-> s2.lo]]))

EntryFailure(kind, p) ==
    [ok |-> FALSE, err |-> kind, pos |-> p, str_size |-> 0, s |-> <<>>]

\* lines 142-150 with the encoded length taken for the byte length
decode_entry_utf8_encoded_size(b, p) ==
    Let(read_u8(b, p), LAMBDA enc :
    IF ~enc.ok THEN EntryFailure("TruncatedInput", enc.pos)
    ELSE
    Let(read_u8(b, enc.pos), LAMBDA sz :
    IF ~sz.ok THEN EntryFailure("TruncatedInput", sz.pos)
    ELSE
    Let(take_read_to_end(b, sz.pos, enc.v), LAMBDA t :
    Let(from_utf8(t.bytes, [i |-> 1, acc |-> <<>>]), LAMBDA d :
        IF ~d.ok THEN EntryFailure("InvalidTextEncoding", t.pos)
        ELSE [ok |-> TRUE, err |-> "", pos |-> t.pos, str_size |-> enc.v,
              s |-> d.s]))))

\* lines 142-150: one entry of a UTF-8 pool, from the position p
decode_entry_utf8(b, p) ==
    Let(read_u8(b, p), LAMBDA enc :
    IF ~enc.ok THEN EntryFailure("TruncatedInput", enc.pos)
    ELSE
    Let(read_u8(b, enc.pos), LAMBDA sz :
    IF ~sz.ok THEN EntryFailure("TruncatedInput", sz.pos)
    ELSE
    Let(take_read_to_end(b, sz.pos, sz.v), LAMBDA t :
    Let(from_utf8(t.bytes, [i |-> 1, acc |-> <<>>]), LAMBDA d :
        IF ~d.ok THEN EntryFailure("InvalidTextEncoding", t.pos)
        ELSE [ok |-> TRUE, err |-> "", pos |-> t.pos, str_size |-> sz.v,
              s |-> d.s]))))

\* lines 152-155: one entry of a UTF-16 pool, from the position p
decode_entry_utf16(b, p) ==
    Let(read_u16(b, p), LAMBDA sz :
    IF ~sz.ok THEN EntryFailure("TruncatedInput", sz.pos)
    ELSE Let(decode_utf16(b, [pos |-> sz.pos, n |-> sz.v, acc |-> <<>>]), LAMBDA d :
         IF ~d.ok THEN EntryFailure(d.err, d.pos)
         ELSE [ok |-> TRUE, err |-> "", pos |-> d.pos, str_size |-> sz.v,
               s |-> d.s]))

decode_entry(b, p, is_utf8) ==
    IF is_utf8 THEN decode_entry_utf8(b, p) ELSE decode_entry_utf16(b, p)

\* lines 124-155: set_position(current_start as u64), then the entry.  The
\* first read of an entry fails at every position from the end of the buffer
\* on, and leaves the cursor at the end.
decode_entry_at(b, current_start_v, is_utf8) ==
    IF Small(current_start_v) /\ Value(current_start_v) < Len(b)
    THEN decode_entry(b, Value(current_start_v), is_utf8)
    ELSE EntryFailure("TruncatedInput", Len(b))

\* line 158 without the test of the size
push_entry_always(gs, e) == Append(gs, e.s)

\* line 158: only an entry of a size above zero is pushed
push_entry(gs, e) == IF e.str_size > 0 THEN Append(gs, e.s) ELSE gs

\* lines 121-161: the loop over the offsets; hd = [initial_offset,
\* strings_start, offsets, is_utf8, build] is fixed, st = [i, pos, gs] is
\* the index of the next offset, the cursor and the global strings so far
RECURSIVE decode_strings(_, _, _)
decode_strings(b, hd, st) ==
    IF st.i > Len(hd.offsets)
    THEN [ok |-> TRUE, err |-> "", pos |-> st.pos, gs |-> st.gs]
    ELSE
    Let(current_start(hd.initial_offset, hd.strings_start, hd.offsets[st.i],
                      hd.build), LAMBDA cs :
    IF ~cs.ok THEN [ok |-> FALSE, err |-> "Overflow", pos |-> st.pos, gs |-> st.gs]
    ELSE
    Let(decode_entry_at(b, cs.v, hd.is_utf8), LAMBDA e :
    IF ~e.ok THEN [ok |-> FALSE, err |-> e.err, pos |-> e.pos, gs |-> st.gs]
    ELSE Let([i |-> st.i + 1, pos |-> e.pos, gs |-> push_entry(st.gs, e)],
             LAMBDA nx : decode_strings(b, hd, nx))))

NoPool == [header |-> NoHeader, string_count |-> U32(0), style_count |-> U32(0),
           is_sorted |-> FALSE, is_utf8 |-> FALSE, strings_start |-> U32(0),
           styles_start |-> U32(0), strings_offsets |-> <<>>,
           styles_offsets |-> <<>>, strings |-> <<>>]

PoolFailure(kind, tag, p, gs) ==
    [ok |-> FALSE, err |-> kind, tag |-> tag, pos |-> p, gs |-> gs, pool |-> NoPool]

\* flags >> k != 0 in place of flags & (1 << k) != 0
Bit_shifted(n, k) == (n \div (2 ^ k)) # 0

\* lines 101-102: (flags & (1 << k)) != 0
Bit(n, k) == (n \div (2 ^ k)) % 2 = 1

\* lines 98-104: the five u32 fields that follow the header
pool_fields(b, p) ==
    Let(read_u32(b, p), LAMBDA string_count :
    IF ~string_count.ok THEN [ok |-> FALSE, pos |-> string_count.pos]
    ELSE
    Let(read_u32(b, string_count.pos), LAMBDA style_count :
    IF ~style_count.ok THEN [ok |-> FALSE, pos |-> style_count.pos]
    ELSE
    Let(read_u32(b, style_count.pos), LAMBDA flags :
    IF ~flags.ok THEN [ok |-> FALSE, pos |-> flags.pos]
    ELSE
    Let(read_u32(b, flags.pos), LAMBDA strings_start :
    IF ~strings_start.ok THEN [ok |-> FALSE, pos |-> strings_start.pos]
    ELSE
    Let(read_u32(b, strings_start.pos), LAMBDA styles_start :
    IF ~styles_start.ok THEN [ok |-> FALSE, pos |-> styles_start.pos]
    ELSE [ok |-> TRUE, pos |-> styles_start.pos,
          string_count |-> string_count.v,
          style_count |-> style_count.v,
          flags |-> flags.v,
          strings_start |-> strings_start.v,
          styles_start |-> styles_start.v])))))

\* p is the cursor after the dispatch loop has read the tag
StringPool_from_buff(b, p, gs, bld) ==
    Let(ChunkHeader_from_buff(b, p - 2, ResStringPoolType), LAMBDA h :
    IF ~h.ok THEN PoolFailure(h.err, h.tag, h.pos, gs)
    ELSE
    Let(pool_fields(b, h.pos), LAMBDA f :
    IF ~f.ok THEN PoolFailure("TruncatedInput", 0, f.pos, gs)
    ELSE
    Let(read_table(b, f.pos, f.string_count), LAMBDA strings_offsets :
    IF ~strings_offsets.ok
    THEN PoolFailure("TruncatedInput", 0, strings_offsets.pos, gs)
    ELSE
    Let(read_table(b, strings_offsets.pos, f.style_count), LAMBDA styles_offsets :
    IF ~styles_offsets.ok
    THEN PoolFailure("TruncatedInput", 0, styles_offsets.pos, gs)
    ELSE
    Let(decode_strings(b, [initial_offset |-> p - 2,
                           strings_start |-> f.strings_start,
                           offsets |-> strings_offsets.v,
                           is_utf8 |-> Bit(f.flags.lo, 8),
                           build |-> bld],
                       [i |-> 1, pos |-> styles_offsets.pos, gs |-> gs]), LAMBDA d :
    IF ~d.ok THEN PoolFailure(d.err, 0, d.pos, d.gs)
    ELSE [ok |-> TRUE, err |-> "", tag |-> ResStringPoolType, pos |-> d.pos,
          gs |-> d.gs,
          pool |-> [header |-> h.header,
                    string_count |-> f.string_count,
                    style_count |-> f.style_count,
                    is_sorted |-> Bit(f.flags.lo, 0),
                    is_utf8 |-> Bit(f.flags.lo, 8),
                    strings_start |-> f.strings_start,
                    styles_start |-> f.styles_start,
                    strings_offsets |-> strings_offsets.v,
                    styles_offsets |-> styles_offsets.v,
                    strings |-> d.gs]])))))

-----------------------------------------------------------------------------
(* resource_map.rs, and the two decoders whose files are not in the        *)
(* repository's sources (res_table.rs, res_value.rs)                       *)

ChunkFailure(kind, tag, p) == [ok |-> FALSE, err |-> kind, tag |-> tag, pos |-> p]

\* nb_resources = (size / 4) - 2, for a size the header check made >= 8
nb_resources(chunk_size) ==
    LET q_hi == chunk_size.hi \div 4
        q_lo == (chunk_size.hi % 4) * 16384 + (chunk_size.lo \div 4)
    IN  IF q_lo >= 2 THEN [hi |-> q_hi, lo |-> q_lo - 2]
        ELSE [hi |-> q_hi - 1, lo |-> q_lo + 65534]

\* p is the cursor after the dispatch loop has read the tag
ResourceMap_from_buff(b, p) ==
    Let(ChunkHeader_from_buff(b, p - 2, ResXmlResourceMapType), LAMBDA h :
    IF ~h.ok THEN ChunkFailure(h.err, h.tag, h.pos)
    ELSE Let(read_table(b, h.pos, nb_resources(h.header.chunk_size)), LAMBDA ids :
         IF ~ids.ok THEN ChunkFailure("TruncatedInput", 0, ids.pos)
         ELSE [ok |-> TRUE, err |-> "", tag |-> ResXmlResourceMapType,
               pos |-> ids.pos]))

\* ResTable::parse: the chunk is consumed as an opaque chunk of the size
\* its header declares.  An end that is not below 2^31 is kept as 2^31 - 1:
\* it is past the end of every sequence of bytes.
ResTable_parse(b, p) ==
    Let(ChunkHeader_from_buff(b, p - 2, ResTableType), LAMBDA h :
    IF ~h.ok THEN ChunkFailure(h.err, h.tag, h.pos)
    ELSE [ok |-> TRUE, err |-> "", tag |-> ResTableType,
          pos |-> IF h.header.chunk_size.hi < 16384 /\ p < 1073741824
                  THEN (p - 2) + Value(h.header.chunk_size)
                  ELSE 2147483647])

\* DataValueType: the data_type bytes of a typed value
TypeNull == 0
TypeReference == 1
TypeAttribute == 2
TypeString == 3
TypeFloat == 4
TypeDimension == 5
TypeFraction == 6
TypeDynamicReference == 7
TypeDynamicAttribute == 8
TypeIntDec == 16
TypeIntHex == 17
TypeIntBoolean == 18
TypeIntColorArgb8 == 28
TypeIntColorRgb8 == 29
TypeIntColorArgb4 == 30
TypeIntColorRgb4 == 31

DataValueType ==
    {TypeNull, TypeReference, TypeAttribute, TypeString, TypeFloat, TypeDimension,
     TypeFraction, TypeDynamicReference, TypeDynamicAttribute, TypeIntDec,
     TypeIntHex, TypeIntBoolean, TypeIntColorArgb8, TypeIntColorRgb8,
     TypeIntColorArgb4, TypeIntColorRgb4}

\* ResValue::from_buff: size u16, res0 u8, data_type u8, data u32
ResValue_from_buff(b, p) ==
    IF p + 8 > Len(b)
    THEN [ok |-> FALSE, err |-> "TruncatedInput", pos |-> Len(b),
          data_type |-> 0, data |-> U32(0)]
    ELSE IF ByteAt(b, p + 3) \notin DataValueType
    THEN [ok |-> FALSE, err |-> "UnknownValueType", pos |-> p + 4,
          data_type |-> ByteAt(b, p + 3), data |-> U32(0)]
    ELSE [ok |-> TRUE, err |-> "", pos |-> p + 8,
          data_type |-> ByteAt(b, p + 3), data |-> read_u32(b, p + 4).v]

-----------------------------------------------------------------------------
(* parser.rs: the chunk decoders                                           *)

\* "manifest"
Manifest == <<109, 97, 110, 105, 102, 101, 115, 116>>

\* HashMap::new()
EmptyMap == [k \in {} |-> <<>>]

\* HashMap::insert
Insert(map, key, val) ==
    [k \in DOMAIN map \cup {key} |-> IF k = key THEN val ELSE map[k]]

\* strings.get(index as usize).unwrap_or_default()
Get_or_default(strings, index) ==
    IF Small(index) /\ Value(index) < Len(strings)
    THEN [ok |-> TRUE, v |-> strings[Value(index) + 1]]
    ELSE [ok |-> TRUE, v |-> <<>>]

\* strings.get(index as usize)
Get(strings, index) ==
    IF Small(index) /\ Value(index) < Len(strings)
    THEN [ok |-> TRUE, v |-> strings[Value(index) + 1]]
    ELSE [ok |-> FALSE, v |-> <<>>]

\* u32 / 10 and u32 % 10
DivMod10(u) ==
    LET t == (u.hi % 10) * 65536 + u.lo
    IN  [q |-> [hi |-> u.hi \div 10, lo |-> t \div 10], r |-> t % 10]

\* data.to_string(): the decimal digits of a u32
RECURSIVE to_string(_)
to_string(u) ==
    Let(DivMod10(u), LAMBDA d :
        IF d.q = U32(0) THEN <<48 + d.r>>
        ELSE Append(to_string(d.q), 48 + d.r))

HexDigit(d) == IF d < 10 THEN 48 + d ELSE 87 + d

\* the lowercase hex digits of n < 65536, at least width of them
RECURSIVE hex16(_, _)
hex16(n, width) ==
    IF n < 16 /\ width <= 1 THEN <<HexDigit(n)>>
    ELSE Append(hex16(n \div 16, width - 1), HexDigit(n % 16))

\* format!("{:x}", data)
format_x(u) == IF u.hi = 0 THEN hex16(u.lo, 1) ELSE hex16(u.hi, 1) \o hex16(u.lo, 4)

\* lines 178-207 with the boolean test as `data == 1`
render_typed_value_one_is_true(data_type, data) ==
    IF data_type = TypeReference THEN <<116, 121, 112, 101, 49, 47>> \o to_string(data)
    ELSE IF data_type = TypeIntDec THEN to_string(data)
    ELSE IF data_type = TypeIntHex THEN <<48, 120>> \o format_x(data)
    ELSE IF data_type = TypeIntBoolean
    THEN IF data = U32(1) THEN <<116, 114, 117, 101>> ELSE <<102, 97, 108, 115, 101>>
    ELSE <<>>

\* lines 178-207: the text of a typed value
render_typed_value(data_type, data) ==
    IF data_type = TypeReference THEN <<116, 121, 112, 101, 49, 47>> \o to_string(data)
    ELSE IF data_type = TypeIntDec THEN to_string(data)
    ELSE IF data_type = TypeIntHex THEN <<48, 120>> \o format_x(data)
    ELSE IF data_type = TypeIntBoolean
    THEN IF data = U32(0) THEN <<102, 97, 108, 115, 101>> ELSE <<116, 114, 117, 101>>
    ELSE <<>>

NsFailure(kind, tag, p, ns) ==
    [ok |-> FALSE, err |-> kind, tag |-> tag, pos |-> p, namespaces |-> ns]

\* p is the cursor after the dispatch loop has read the tag
parse_start_namespace(b, p, strings, namespaces) ==
    Let(ChunkHeader_from_buff(b, p - 2, ResXmlStartNamespaceType), LAMBDA h :
    IF ~h.ok THEN NsFailure(h.err, h.tag, h.pos, namespaces)
    ELSE IF h.pos + 16 > Len(b) THEN NsFailure("TruncatedInput", 0, Len(b), namespaces)
    ELSE
    Let(Get(strings, read_u32(b, h.pos + 8).v), LAMBDA prefix_str :
    Let(Get(strings, read_u32(b, h.pos + 12).v), LAMBDA uri_str :
        IF ~prefix_str.ok \/ ~uri_str.ok
        THEN NsFailure("StringIndexOutOfRange", 0, h.pos + 16, namespaces)
        ELSE [ok |-> TRUE, err |-> "", tag |-> ResXmlStartNamespaceType,
              pos |-> h.pos + 16,
              namespaces |-> Insert(namespaces, uri_str.v, prefix_str.v)])))

parse_end_namespace(b, p, strings) ==
    Let(ChunkHeader_from_buff(b, p - 2, ResXmlEndNamespaceType), LAMBDA h :
    IF ~h.ok THEN ChunkFailure(h.err, h.tag, h.pos)
    ELSE IF h.pos + 16 > Len(b) THEN ChunkFailure("TruncatedInput", 0, Len(b))
    ELSE [ok |-> TRUE, err |-> "", tag |-> ResXmlEndNamespaceType,
          pos |-> h.pos + 16])

AttrFailure(kind, p) == [ok |-> FALSE, err |-> kind, pos |-> p, key |-> <<>>, val |-> <<>>]

\* lines 162-173 with an undeclared namespace skipped
attr_key_lenient(strings, prefixes, attr_namespace, attr_name) ==
    Let(Get(strings, attr_name), LAMBDA name :
    Let(Get(strings, attr_namespace), LAMBDA uri :
    IF ~name.ok THEN [ok |-> FALSE, err |-> "StringIndexOutOfRange", v |-> <<>>]
    ELSE IF attr_namespace # NoValue /\ uri.ok /\ uri.v \in DOMAIN prefixes
    THEN [ok |-> TRUE, err |-> "", v |-> prefixes[uri.v] \o <<58>> \o name.v]
    ELSE [ok |-> TRUE, err |-> "", v |-> name.v]))

\* lines 162-173: the key of an attribute
attr_key(strings, prefixes, attr_namespace, attr_name) ==
    Let(Get(strings, attr_name), LAMBDA name :
    IF attr_namespace # NoValue
    THEN Let(Get(strings, attr_namespace), LAMBDA uri :
         IF ~uri.ok THEN [ok |-> FALSE, err |-> "StringIndexOutOfRange", v |-> <<>>]
         ELSE IF uri.v \notin DOMAIN prefixes
         THEN [ok |-> FALSE, err |-> "UnresolvedNamespace", v |-> <<>>]
         ELSE IF ~name.ok
         THEN [ok |-> FALSE, err |-> "StringIndexOutOfRange", v |-> <<>>]
         ELSE [ok |-> TRUE, err |-> "",
               v |-> prefixes[uri.v] \o <<58>> \o name.v])
    ELSE IF ~name.ok
         THEN [ok |-> FALSE, err |-> "StringIndexOutOfRange", v |-> <<>>]
         ELSE [ok |-> TRUE, err |-> "", v |-> name.v])

\* lines 175-208 with the typed value looked at first
attr_val_typed_first(strings, attr_raw_val, value) ==
    IF render_typed_value(value.data_type, value.data) # <<>>
    THEN [ok |-> TRUE, err |-> "", v |-> render_typed_value(value.data_type, value.data)]
    ELSE IF attr_raw_val # NoValue
    THEN Let(Get(strings, attr_raw_val), LAMBDA raw :
         IF ~raw.ok THEN [ok |-> FALSE, err |-> "StringIndexOutOfRange", v |-> <<>>]
         ELSE [ok |-> TRUE, err |-> "", v |-> raw.v])
    ELSE [ok |-> TRUE, err |-> "", v |-> <<>>]

\* lines 175-208 without the test of the raw value
attr_val_typed(strings, attr_raw_val, value) ==
    [ok |-> TRUE, err |-> "", v |-> render_typed_value(value.data_type, value.data)]

\* lines 175-208: the value of an attribute
attr_val(strings, attr_raw_val, value) ==
    IF attr_raw_val # NoValue
    THEN Let(Get(strings, attr_raw_val), LAMBDA raw :
         IF ~raw.ok THEN [ok |-> FALSE, err |-> "StringIndexOutOfRange", v |-> <<>>]
         ELSE [ok |-> TRUE, err |-> "", v |-> raw.v])
    ELSE [ok |-> TRUE, err |-> "", v |-> render_typed_value(value.data_type, value.data)]

\* lines 157-212: one attribute, read at p
parse_attribute(b, p, strings, prefixes) ==
    IF p + 12 > Len(b) THEN AttrFailure("TruncatedInput", Len(b))
    ELSE
    Let(ResValue_from_buff(b, p + 12), LAMBDA value :
    IF ~value.ok THEN AttrFailure(value.err, value.pos)
    ELSE
    Let(attr_key(strings, prefixes, read_u32(b, p).v,
                 read_u32(b, p + 4).v), LAMBDA key :
    IF ~key.ok THEN AttrFailure(key.err, value.pos)
    ELSE
    Let(attr_val(strings, read_u32(b, p + 8).v, value), LAMBDA val :
    IF ~val.ok THEN AttrFailure(val.err, value.pos)
    ELSE [ok |-> TRUE, err |-> "", pos |-> value.pos, key |-> key.v, val |-> val.v])))

\* lines 155-213: the loop over the attributes; st = [left, pos, attrs]
RECURSIVE parse_attributes(_, _, _, _)
parse_attributes(b, strings, prefixes, st) ==
    IF st.left = 0 THEN [ok |-> TRUE, err |-> "", pos |-> st.pos, attrs |-> st.attrs]
    ELSE Let(parse_attribute(b, st.pos, strings, prefixes), LAMBDA a :
         IF ~a.ok THEN [ok |-> FALSE, err |-> a.err, pos |-> a.pos, attrs |-> st.attrs]
         ELSE Let([left |-> st.left - 1, pos |-> a.pos,
                   attrs |-> Insert(st.attrs, a.key, a.val)],
                  LAMBDA nx : parse_attributes(b, strings, prefixes, nx)))

NoElement == [element_type |-> <<>>, attributes |-> EmptyMap, children |-> <<>>]

ElementFailure(kind, tag, p) ==
    [ok |-> FALSE, err |-> kind, tag |-> tag, pos |-> p, element |-> NoElement]

\* p is the cursor after the dispatch loop has read the tag
parse_start_element(b, p, strings, prefixes) ==
    Let(ChunkHeader_from_buff(b, p - 2, ResXmlStartElementType), LAMBDA h :
    IF ~h.ok THEN ElementFailure(h.err, h.tag, h.pos)
    ELSE IF h.pos + 28 > Len(b) THEN ElementFailure("TruncatedInput", 0, Len(b))
    ELSE
    Let(Get(strings, read_u32(b, h.pos + 12).v), LAMBDA element_type :
    IF ~element_type.ok THEN ElementFailure("StringIndexOutOfRange", 0, h.pos + 28)
    ELSE
    Let(parse_attributes(b, strings, prefixes,
                         [left |-> read_u16(b, h.pos + 20).v, pos |-> h.pos + 28,
                          attrs |-> EmptyMap]), LAMBDA a :
    IF ~a.ok THEN ElementFailure(a.err, 0, a.pos)
    ELSE [ok |-> TRUE, err |-> "", tag |-> ResXmlStartElementType, pos |-> a.pos,
          element |-> [element_type |-> element_type.v,
                       attributes |-> a.attrs,
                       children |-> <<>>]])))

\* p is the cursor after the dispatch loop has read the tag
parse_end_element(b, p, strings) ==
    Let(ChunkHeader_from_buff(b, p - 2, ResXmlEndElementType), LAMBDA h :
    IF ~h.ok THEN [ok |-> FALSE, err |-> h.err, tag |-> h.tag, pos |-> h.pos, name |-> <<>>]
    ELSE IF h.pos + 16 > Len(b)
    THEN [ok |-> FALSE, err |-> "TruncatedInput", tag |-> 0, pos |-> Len(b), name |-> <<>>]
    ELSE Let(Get(strings, read_u32(b, h.pos + 12).v), LAMBDA name :
         IF ~name.ok
         THEN [ok |-> FALSE, err |-> "StringIndexOutOfRange", tag |-> 0,
               pos |-> h.pos + 16, name |-> <<>>]
         ELSE [ok |-> TRUE, err |-> "", tag |-> ResXmlEndElementType,
               pos |-> h.pos + 16, name |-> name.v]))

-----------------------------------------------------------------------------
(* parser.rs, parse_xml: the tree under construction.  nodes holds the     *)
(* XmlElement cells in order of creation (cell 1 is the root), children    *)
(* and the stack hold indices of cells.                                    *)

\* lines 291-295
RootElement == [element_type |-> Manifest, attributes |-> EmptyMap, children |-> <<>>]

TreeFailure(kind, ns, st) == [ok |-> FALSE, err |-> kind, nodes |-> ns, stack |-> st]

\* lines 322-328 with a merge in place of the assignment
start_element_merge(ns, st, element) ==
    IF st = <<>> THEN TreeFailure("EmptyStack", ns, st)
    ELSE IF element.element_type = Manifest
    THEN [ok |-> TRUE, err |-> "",
          nodes |-> [ns EXCEPT ![st[Len(st)]].attributes =
                        [k \in DOMAIN @ \cup DOMAIN element.attributes |->
                            IF k \in DOMAIN element.attributes
                            THEN element.attributes[k] ELSE @[k]]],
          stack |-> st]
    ELSE [ok |-> TRUE, err |-> "",
          nodes |-> Append([ns EXCEPT ![st[Len(st)]].children =
                                Append(@, Len(ns) + 1)], element),
          stack |-> Append(st, Len(ns) + 1)]

\* lines 322-328 with the new element also pushed to the bottom of the stack
start_element_shared(ns, st, element) ==
    IF st = <<>> THEN TreeFailure("EmptyStack", ns, st)
    ELSE IF element.element_type = Manifest
    THEN [ok |-> TRUE, err |-> "",
          nodes |-> [ns EXCEPT ![st[Len(st)]].attributes = element.attributes],
          stack |-> st]
    ELSE [ok |-> TRUE, err |-> "",
          nodes |-> Append([[ns EXCEPT ![st[Len(st)]].children =
                                 Append(@, Len(ns) + 1)]
                               EXCEPT ![st[1]].children =
                                 IF Len(st) > 1 THEN Append(@, Len(ns) + 1) ELSE @],
                           element),
          stack |-> Append(st, Len(ns) + 1)]

\* lines 322-328 with the element made last, open or closed, as the parent
start_element_latest(ns, st, element) ==
    IF st = <<>> THEN TreeFailure("EmptyStack", ns, st)
    ELSE IF element.element_type = Manifest
    THEN [ok |-> TRUE, err |-> "",
          nodes |-> [ns EXCEPT ![Len(ns)].attributes = element.attributes],
          stack |-> st]
    ELSE [ok |-> TRUE, err |-> "",
          nodes |-> Append([ns EXCEPT ![Len(ns)].children =
                                Append(@, Len(ns) + 1)], element),
          stack |-> Append(st, Len(ns) + 1)]

\* lines 322-328: stack.last().unwrap() panics on an empty stack
start_element(ns, st, element) ==
    IF st = <<>> THEN TreeFailure("EmptyStack", ns, st)
    ELSE IF element.element_type = Manifest
    THEN [ok |-> TRUE, err |-> "",
          nodes |-> [ns EXCEPT ![st[Len(st)]].attributes = element.attributes],
          stack |-> st]
    ELSE [ok |-> TRUE, err |-> "",
          nodes |-> Append([ns EXCEPT ![st[Len(st)]].children =
                                Append(@, Len(ns) + 1)], element),
          stack |-> Append(st, Len(ns) + 1)]

\* line 333: Vec::pop returns None on an empty stack
end_element(st) == IF st = <<>> THEN st ELSE SubSeq(st, 1, Len(st) - 1)

-----------------------------------------------------------------------------
(* Encoders of the test inputs (the tests' write_u16 / write_u32 calls).   *)

LE16(n) == <<n % 256, n \div 256>>

LE32(u) == LE16(u.lo) \o LE16(u.hi)

EncodeHeader(tag, header_size, chunk_size) ==
    LE16(tag) \o LE16(header_size) \o LE32(chunk_size)

RECURSIVE Concat(_)
Concat(ss) == IF ss = <<>> THEN <<>> ELSE Head(ss) \o Concat(Tail(ss))

Zeros(n) == [i \in 1 .. n |-> 0]

\* the code units of a string
RECURSIVE utf16_units(_)
utf16_units(str) ==
    IF str = <<>> THEN <<>>
    ELSE LET c == Head(str) IN
         (IF c < 65536 THEN <<c>>
          ELSE <<55296 + ((c - 65536) \div 1024), 56320 + ((c - 65536) % 1024)>>)
         \o utf16_units(Tail(str))

\* the UTF-8 bytes of a string
RECURSIVE utf8_bytes(_)
utf8_bytes(str) ==
    IF str = <<>> THEN <<>>
    ELSE LET c == Head(str) IN
         (IF c < 128 THEN <<c>>
          ELSE IF c < 2048 THEN <<192 + (c \div 64), 128 + (c % 64)>>
          ELSE IF c < 65536
               THEN <<224 + (c \div 4096), 128 + ((c \div 64) % 64), 128 + (c % 64)>>
               ELSE <<240 + (c \div 262144), 128 + ((c \div 4096) % 64),
                      128 + ((c \div 64) % 64), 128 + (c % 64)>>)
         \o utf8_bytes(Tail(str))

\* one entry as the tests write it: the length(s), the text, the terminator
EncodeEntry(str, utf8) ==
    IF utf8
    THEN <<Len(str), Len(utf8_bytes(str))>> \o utf8_bytes(str) \o <<0>>
    ELSE LET u == utf16_units(str) IN
         LE16(Len(u)) \o Concat([i \in 1 .. Len(u) |-> LE16(u[i])]) \o LE16(0)

RECURSIVE SumLen(_, _)
SumLen(ss, n) == IF n = 0 THEN 0 ELSE Len(ss[n]) + SumLen(ss, n - 1)

\* a string-pool chunk in the layout StringPool::from_buff reads: the header
\* (header_size 28, chunk_size the length of the chunk), the five fields
\* (no style, styles_start 0), the offsets, the entries, then pad zero bytes
EncodePool(strs, utf8, flags, pad) ==
    LET n == Len(strs)
        entries == [i \in 1 .. n |-> EncodeEntry(strs[i], utf8)]
        start == 28 + 4 * n
        total == start + SumLen(entries, n) + pad
    IN  EncodeHeader(ResStringPoolType, 28, U32(total))
        \o LE32(U32(n)) \o LE32(U32(0)) \o LE32(U32(flags))
        \o LE32(U32(start)) \o LE32(U32(0))
        \o Concat([i \in 1 .. n |-> LE32(U32(SumLen(entries, i - 1)))])
        \o Concat(entries) \o Zeros(pad)

Prefix(s, n) == SubSeq(s, 1, IF n < Len(s) THEN n ELSE Len(s))

-----------------------------------------------------------------------------
(* The parts of the state a specification does not use.                    *)


NoArg == [expected_type |-> 0, tag |-> 0, header_size |-> 0,
          chunk_size |-> U32(0), len |-> 0]

NoRet == [call |-> "none"]

IdleTree ==
    /\ global_strings = <<>>
    /\ namespace_prefixes = EmptyMap
    /\ nodes = <<RootElement>>
    /\ stack = <<1>>
    /\ tick = 0

-----------------------------------------------------------------------------
(* SpecHeader: ChunkHeader::from_buff applied to one encoded header.       *)

HeaderTags == ChunkType \cup {4, 261, 65535}

ExpectedTypes == {ResStringPoolType, ResXmlType, ResXmlStartElementType}

HeaderSizes == (0 .. MaxSize) \cup {16, 256, 65535}

ChunkSizes ==
    {U32(n) : n \in 0 .. MaxSize}
        \cup {U32(16), U32(255), [hi |-> 1, lo |-> 0], [hi |-> 1, lo |-> 4], NoValue}

HeaderLens == {0, 1, 2, 3, 4, 7, 8}

InitHeader ==
    /\ arg \in [expected_type : ExpectedTypes, tag : HeaderTags,
                header_size : HeaderSizes, chunk_size : ChunkSizes,
                len : HeaderLens]
    /\ \/ arg.len = 8
       \/ arg.header_size \in {4, 8} /\ arg.chunk_size \in {U32(8), NoValue}
    /\ buf = Prefix(EncodeHeader(arg.tag, arg.header_size, arg.chunk_size), arg.len)
    /\ pos = 0
    /\ status = "ready"
    /\ err = ""
    /\ ret = NoRet
    /\ build = "release"
    /\ IdleTree

HeaderFromBuff ==
    /\ status = "ready"
    /\ \E r \in {ChunkHeader_from_buff(buf, pos, arg.expected_type)} :
       /\ ret' = [call |-> "ChunkHeader::from_buff", ok |-> r.ok, tag |-> r.tag,
                  header |-> r.header]
       /\ pos' = r.pos
       /\ status' = IF r.ok THEN "done" ELSE "panic"
       /\ err' = r.err
    /\ UNCHANGED <<buf, arg, global_strings, namespace_prefixes, nodes, stack, build, tick>>

NextHeader == HeaderFromBuff

SpecHeader == InitHeader /\ [][NextHeader]_vars

\* the sizes the input encodes satisfy the three invariants
ArgSizesValid ==
    /\ arg.header_size >= 8
    /\ ~U32Less(arg.chunk_size, arg.header_size)

HeaderCallDone == status \in {"done", "panic"} /\ ret.call = "ChunkHeader::from_buff"

\* C5: a full header with the expected tag, header_size >= 8 and
\* chunk_size >= header_size decodes successfully, and the three fields
\* returned are the three fields that were encoded (little-endian).
C5_ValidHeaderRoundTrips ==
    (HeaderCallDone /\ arg.len = 8 /\ arg.tag = arg.expected_type /\ ArgSizesValid)
        => /\ status = "done"
           /\ ret.ok
           /\ ret.header = [chunk_type |-> arg.expected_type,
                            header_size |-> arg.header_size,
                            chunk_size |-> arg.chunk_size]
           /\ pos = 8

C5_Witness ==
    /\ HeaderCallDone /\ status = "done" /\ arg.len = 8
    /\ ret.header.header_size = 9
    /\ ret.header.chunk_size = [hi |-> 1, lo |-> 4]
    /\ ret.header.chunk_type = ResXmlStartElementType

\* C6: with the expected tag, header_size < 8 fails as header-too-small;
\* else chunk_size < 8 fails as chunk-too-small; else chunk_size <
\* header_size fails as chunk-smaller-than-header; no header violating one
\* of the three invariants is accepted.
C6_SizeInvariantsRejected ==
    (HeaderCallDone /\ arg.len = 8 /\ arg.tag = arg.expected_type)
        => /\ arg.header_size < 8
                => status = "panic" /\ err = "HeaderTooSmall"
           /\ (arg.header_size >= 8 /\ U32Less(arg.chunk_size, 8))
                => status = "panic" /\ err = "ChunkTooSmall"
           /\ (arg.header_size >= 8 /\ ~U32Less(arg.chunk_size, 8)
                 /\ U32Less(arg.chunk_size, arg.header_size))
                => status = "panic" /\ err = "ChunkSmallerThanHeader"
           /\ ~ArgSizesValid => ~ret.ok

C6_Witness ==
    /\ HeaderCallDone /\ arg.len = 8 /\ arg.tag = arg.expected_type
    /\ arg.header_size = 16 /\ arg.chunk_size = U32(8)
    /\ err = "ChunkSmallerThanHeader"

\* C7: a known tag that differs from the expected type fails as
\* unexpected-chunk-type whatever the two size fields hold, valid or not.
C7_TypeCheckedBeforeSizes ==
    (HeaderCallDone /\ arg.len >= 2 /\ arg.tag \in ChunkType
        /\ arg.tag # arg.expected_type)
        => status = "panic" /\ err = "UnexpectedChunkType" /\ ret.tag = arg.tag

C7_Witness ==
    /\ HeaderCallDone /\ arg.len = 8
    /\ arg.tag = ResTableType /\ arg.expected_type = ResStringPoolType
    /\ arg.header_size = 4 /\ arg.chunk_size = U32(0)
    /\ err = "UnexpectedChunkType"

-----------------------------------------------------------------------------
(* SpecPool: StringPool::from_buff applied to one encoded pool chunk.      *)

PoolAlphabet ==
    {<<72, 105>>, <<233>>, <<8364, 120>>, <<128512>>, <<>>}

PoolLists == UNION {[1 .. n -> PoolAlphabet] : n \in 0 .. MaxPoolStrings}

PoolFlags(utf8, sorted) == (IF utf8 THEN 256 ELSE 0) + (IF sorted THEN 1 ELSE 0)

\* bits of the flags word other than bit 0 and bit 8: none, bit 1, bits 1-7,
\* bits 9-15, bits 16-30
OtherFlagBits == {0, 2, 254, 65024, 2147418112}

InitPool ==
    /\ arg \in [strings : PoolLists, utf8 : BOOLEAN, sorted : BOOLEAN,
                other : OtherFlagBits, prior : {<<>>, <<<<112>>>>}, lead : {0, 2}]
    /\ buf = Zeros(arg.lead)
             \o EncodePool(arg.strings, arg.utf8,
                           PoolFlags(arg.utf8, arg.sorted) + arg.other, 0)
    /\ pos = arg.lead + 2
    /\ status = "ready"
    /\ err = ""
    /\ ret = NoRet
    /\ build = "release"
    /\ global_strings = arg.prior
    /\ namespace_prefixes = EmptyMap
    /\ nodes = <<RootElement>>
    /\ stack = <<1>>
    /\ tick = 0

PoolFromBuff ==
    /\ status = "ready"
    /\ \E r \in {StringPool_from_buff(buf, pos, global_strings, build)} :
       /\ ret' = [call |-> "StringPool::from_buff", ok |-> r.ok, pool |-> r.pool]
       /\ pos' = r.pos
       /\ global_strings' = r.gs
       /\ status' = IF r.ok THEN "done" ELSE "panic"
       /\ err' = r.err
    /\ UNCHANGED <<buf, arg, namespace_prefixes, nodes, stack, build, tick>>

NextPool == PoolFromBuff

SpecPool == InitPool /\ [][NextPool]_vars

PoolCallDone == status \in {"done", "panic"} /\ ret.call = "StringPool::from_buff"

AllNonEmpty(strs) == \A i \in 1 .. Len(strs) : strs[i] # <<>>

\* C10: a pool chunk with correct offsets whose entries are all non-empty
\* decodes, in UTF-16 and in UTF-8, to exactly its strings in on-disk order
\* (appended to the strings the document already had); a pool of zero
\* strings adds nothing.
C10_PoolDecodesInOrder ==
    (PoolCallDone /\ AllNonEmpty(arg.strings))
        => /\ status = "done"
           /\ global_strings = arg.prior \o arg.strings
           /\ ret.pool.strings = arg.prior \o arg.strings
           /\ ret.pool.is_utf8 = arg.utf8

C10_Witness ==
    /\ PoolCallDone /\ status = "done"
    /\ arg.utf8 /\ arg.prior = <<>>
    /\ arg.strings = <<<<233>>, <<72, 105>>>>
    /\ global_strings = <<<<233>>, <<72, 105>>>>

-----------------------------------------------------------------------------
(* Spec: parse_xml applied to one document.                                *)

\* a start- or end-namespace chunk: header, line, comment, prefix, uri
EncodeNamespace(tag, prefix, uri) ==
    EncodeHeader(tag, 16, U32(24))
    \o LE32(U32(1)) \o LE32(NoValue) \o LE32(prefix) \o LE32(uri)

\* one attribute: namespace, name, raw value, then the typed value
EncodeAttribute(a) ==
    LE32(a.ns) \o LE32(a.name) \o LE32(a.raw)
    \o LE16(8) \o <<0, a.data_type>> \o LE32(a.data)

\* a start-element chunk: header, line, comment, namespace, name, the
\* attribute start and size, the count, id, class and style, the attributes
EncodeStartElement(name, attrs) ==
    EncodeHeader(ResXmlStartElementType, 16, U32(36 + 20 * Len(attrs)))
    \o LE32(U32(1)) \o LE32(NoValue) \o LE32(NoValue) \o LE32(name)
    \o LE16(20) \o LE16(20) \o LE16(Len(attrs)) \o LE16(0) \o LE16(0) \o LE16(0)
    \o Concat([i \in 1 .. Len(attrs) |-> EncodeAttribute(attrs[i])])

\* an end-element chunk: header, line, comment, namespace, name
EncodeEndElement(name) ==
    EncodeHeader(ResXmlEndElementType, 16, U32(24))
    \o LE32(U32(1)) \o LE32(NoValue) \o LE32(NoValue) \o LE32(name)

\* a string-pool chunk with the fields given as they are, no styles
EncodePoolRaw(strings_start, offsets, data) ==
    EncodeHeader(ResStringPoolType, 28,
                 U32(28 + 4 * Len(offsets) + Len(data)))
    \o LE32(U32(Len(offsets))) \o LE32(U32(0)) \o LE32(U32(0))
    \o LE32(strings_start) \o LE32(U32(0))
    \o Concat([i \in 1 .. Len(offsets) |-> LE32(offsets[i])])
    \o data

\* the zero bytes that bring a chunk of n bytes to a multiple of four
Pad4(n) == (4 - (n % 4)) % 4

\* a string-pool chunk padded to a multiple of four bytes
EncodePoolAligned(strs, utf8) ==
    EncodePool(strs, utf8, PoolFlags(utf8, FALSE),
               Pad4(Len(EncodePool(strs, utf8, PoolFlags(utf8, FALSE), 0))))

RawAttr(name, raw) ==
    [ns |-> NoValue, name |-> U32(name), raw |-> U32(raw),
     data_type |-> TypeString, data |-> U32(raw)]

TypedAttr(ns, name, data_type, data) ==
    [ns |-> U32(ns), name |-> U32(name), raw |-> NoValue,
     data_type |-> data_type, data |-> data]

\* the pool of the documents: "manifest", "a", "k", "v", "p", "u"
DocStrings == <<Manifest, <<97>>, <<107>>, <<118>>, <<112>>, <<117>>>>

ChunkNames ==
    {"start_ns", "end_ns", "manifest_k", "manifest_v", "a", "a_typed", "end",
     "null", "unknown", "last", "xml", "map", "table", "pool"}

\* the bytes of the chunks the documents are made of
ChunkBytes(name) ==
    CASE name = "start_ns" -> EncodeNamespace(ResXmlStartNamespaceType, U32(4), U32(5))
      [] name = "end_ns" -> EncodeNamespace(ResXmlEndNamespaceType, U32(4), U32(5))
      [] name = "manifest_k" -> EncodeStartElement(U32(0), <<RawAttr(2, 3)>>)
      [] name = "manifest_v" -> EncodeStartElement(U32(0), <<RawAttr(3, 2)>>)
      [] name = "a" -> EncodeStartElement(U32(1), <<>>)
      [] name = "a_typed" ->
            EncodeStartElement(U32(1), <<TypedAttr(5, 2, TypeIntBoolean, U32(1)),
                                         RawAttr(3, 3)>>)
      [] name = "end" -> EncodeEndElement(U32(1))
      [] name = "null" -> LE16(ResNullType)
      [] name = "unknown" -> LE16(5)
      [] name = "last" -> LE16(ResXmlLastChunkType)
      [] name = "xml" -> EncodeHeader(ResXmlType, 8, U32(8))
      [] name = "map" ->
            EncodeHeader(ResXmlResourceMapType, 8, U32(16))
            \o LE32([hi |-> 257, lo |-> 0]) \o LE32([hi |-> 257, lo |-> 1])
      [] name = "table" -> EncodeHeader(ResTableType, 12, U32(12)) \o LE32(U32(0))
      [] name = "pool" -> EncodePoolAligned(<<<<120>>>>, FALSE)

\* "package"
Package == <<112, 97, 99, 107, 97, 103, 101>>

\* "com.example"
ComExample == <<99, 111, 109, 46, 101, 120, 97, 109, 112, 108, 101>>

\* "android"
Android == <<97, 110, 100, 114, 111, 105, 100>>

\* "urn:android"
AndroidUri == <<117, 114, 110, 58, 97, 110, 100, 114, 111, 105, 100>>

\* the pools of the minimal documents
MinimalStrings(pool) ==
    IF pool = "android" THEN <<Manifest, Package, ComExample, Android, AndroidUri>>
    ELSE <<Manifest, Package, ComExample>>

\* the longest body of a document made of catalogue chunks
MaxChunks == 3

RECURSIVE SeqsUpTo(_, _)
SeqsUpTo(S, n) ==
    IF n = 0 THEN {<<>>}
    ELSE LET shorter == SeqsUpTo(S, n - 1)
         IN  shorter \cup {Append(q, x) : q \in {r \in shorter : Len(r) = n - 1}, x \in S}

DocArg(family, pool, utf8, xml, prefix, uri, body) ==
    [family |-> family, pool |-> pool, utf8 |-> utf8, xml |-> xml,
     prefix |-> prefix, uri |-> uri, body |-> body]

\* documents made of a UTF-16 pool and up to MaxChunks catalogue chunks, or
\* of a UTF-8 pool or no pool and one chunk fewer
ChunkArgs ==
    {DocArg("chunks", "doc", FALSE, FALSE, 0, 0, bd) :
        bd \in SeqsUpTo(ChunkNames, MaxChunks)}
    \cup {DocArg("chunks", pl[1], pl[2], FALSE, 0, 0, bd) :
            pl \in {<<"doc", TRUE>>, <<"none", FALSE>>},
            bd \in SeqsUpTo(ChunkNames, MaxChunks - 1)}

\* the minimal documents: pool, start-namespace, start-element "manifest"
\* with one raw attribute (name 1, value 2), end-element; with and without
\* the leading XML header, the namespace declared with strings of the pool
\* or (prefix 3, uri 4) with strings a pool of three does not have
MinimalArgs ==
    {DocArg("minimal", "three", u8, x, pu[1], pu[2], <<>>) :
        u8 \in BOOLEAN, x \in BOOLEAN, pu \in ((0 .. 2) \X (0 .. 2)) \cup {<<3, 4>>}}
    \cup {DocArg("minimal", "android", u8, x, 3, 4, <<>>) :
            u8 \in BOOLEAN, x \in BOOLEAN}

\* a Null tag, then a pool of one string whose strings_start is 0xFFFFFFFE
WrapArgs == {DocArg("wrap", "raw", FALSE, FALSE, 0, 0, <<>>)}

\* the pool, then a start-element "a" with one attribute whose name index
\* (kept in prefix) and raw value index (kept in uri) may miss the pool
IndexArgs ==
    {DocArg("index", "doc", FALSE, FALSE, n, r, <<>>) : n \in {2, 9}, r \in {3, 9}}

\* a chunk no decoder accepts: a header that breaks one of the three size
\* invariants, a pool whose one string is a lone UTF-16 surrogate, or a
\* CDATA chunk whose header announces the sizes 0 and 0
MalformedNames ==
    {"header_small", "chunk_small", "chunk_below_header", "bad_utf16",
     "cdata_small"}

MalformedBytes(name) ==
    IF name = "header_small"
    THEN EncodeHeader(ResXmlEndElementType, 4, U32(24)) \o Zeros(16)
    ELSE IF name = "chunk_small"
    THEN EncodeHeader(ResXmlStartNamespaceType, 8, U32(4)) \o Zeros(16)
    ELSE IF name = "chunk_below_header"
    THEN EncodeHeader(ResXmlStartElementType, 16, U32(12)) \o Zeros(28)
    ELSE IF name = "cdata_small"
    THEN EncodeHeader(ResXmlCDataType, 0, U32(0))
    ELSE EncodePoolRaw(U32(32), <<U32(0)>>, LE16(1) \o LE16(55296) \o LE16(0))

\* the pool, a start-element "a", then a malformed chunk
MalformedArgs ==
    {DocArg("malformed", "doc", FALSE, FALSE, 0, 0, <<n>>) : n \in MalformedNames}

\* the most bytes cut from the end of a document
MaxCut == 4

\* a pool of the strings "a" and "manifest", UTF-8 or UTF-16 and not padded,
\* alone or (UTF-16) followed by the start-element "a", with 1 .. MaxCut
\* bytes cut from the end
TruncatedArgs ==
    {[family |-> "truncated", pool |-> "two", utf8 |-> ub[1], xml |-> FALSE,
      prefix |-> 0, uri |-> 0, body |-> ub[2], cut |-> c] :
        ub \in {<<TRUE, <<>>>>, <<FALSE, <<>>>>, <<FALSE, <<"a">>>>},
        c \in 1 .. MaxCut}

TruncatedBase(a) ==
    EncodePool(<<<<97>>, Manifest>>, a.utf8, PoolFlags(a.utf8, FALSE), 0)
    \o Concat([i \in 1 .. Len(a.body) |-> ChunkBytes(a.body[i])])

\* a pool of the one string "a" (36 bytes in UTF-8, 40 in UTF-16), then the
\* start-element "a" and its end-element
SingleArgs ==
    {DocArg("single", "one", u8, FALSE, 0, 0, <<>>) : u8 \in BOOLEAN}

\* a string whose lengths need the long encoding of a UTF-8 pool: 128
\* letters "x" (128 units, 128 bytes), or a text of 127 units and 256 bytes:
\* 29 times U+1F600 and 4 times U+20AC (128 bytes), the 32 characters below
\* U+0080 of LongMiddle, 31 times U+20AC, U+00E9 and U+0000 (96 bytes)
LongNames == {"both_long", "bytes_long"}

\* 32 bytes that are characters of the text and, read as a chunk, a string
\* pool whose one entry is 127 bytes after its tag
LongMiddle == EncodePoolRaw(U32(127), <<U32(0)>>, <<>>)

LongText(name) ==
    IF name = "both_long" THEN [i \in 1 .. 128 |-> 120]
    ELSE [i \in 1 .. 33 |-> IF i <= 29 THEN 128512 ELSE 8364]
         \o LongMiddle
         \o [i \in 1 .. 33 |-> IF i <= 31 THEN 8364 ELSE IF i = 32 THEN 233 ELSE 0]

LongUnits(name) == IF name = "both_long" THEN 128 ELSE 127

LongBytes(name) ==
    IF name = "both_long" THEN [i \in 1 .. 128 |-> 120]
    ELSE [i \in 1 .. 128 |->
            IF i <= 116 THEN <<240, 159, 152, 128>>[((i - 1) % 4) + 1]
            ELSE <<226, 130, 172>>[((i - 117) % 3) + 1]]
         \o LongMiddle
         \o [i \in 1 .. 96 |->
                IF i <= 93 THEN <<226, 130, 172>>[((i - 1) % 3) + 1]
                ELSE <<195, 169, 0>>[i - 93]]

\* a length of a UTF-8 entry: one byte below 128, else the high byte with
\* its top bit set and the low byte
EncodeLength(n) == IF n < 128 THEN <<n>> ELSE <<128 + (n \div 256), n % 256>>

\* a UTF-8 pool whose one entry is a long string
EncodeLongPool(name) ==
    EncodeHeader(ResStringPoolType, 28,
                 U32(32 + Len(EncodeLength(LongUnits(name)))
                        + Len(EncodeLength(Len(LongBytes(name))))
                        + Len(LongBytes(name)) + 1))
    \o LE32(U32(1)) \o LE32(U32(0)) \o LE32(U32(PoolFlags(TRUE, FALSE)))
    \o LE32(U32(32)) \o LE32(U32(0)) \o LE32(U32(0))
    \o EncodeLength(LongUnits(name)) \o EncodeLength(Len(LongBytes(name)))
    \o LongBytes(name) \o <<0>>

LongArgs ==
    {DocArg("long", "long", TRUE, FALSE, 0, 0, <<n>>) : n \in LongNames}

DocArgs ==
    ChunkArgs \cup MinimalArgs \cup WrapArgs \cup IndexArgs \cup MalformedArgs
    \cup TruncatedArgs \cup SingleArgs \cup LongArgs

\* the bytes of a document
DocBytes(a) ==
    IF a.family = "chunks"
    THEN (IF a.pool = "doc" THEN EncodePoolAligned(DocStrings, a.utf8) ELSE <<>>)
         \o Concat([i \in 1 .. Len(a.body) |-> ChunkBytes(a.body[i])])
    ELSE IF a.family = "minimal"
    THEN (IF a.xml THEN EncodeHeader(ResXmlType, 8, U32(8)) ELSE <<>>)
         \o EncodePoolAligned(MinimalStrings(a.pool), a.utf8)
         \o EncodeNamespace(ResXmlStartNamespaceType, U32(a.prefix), U32(a.uri))
         \o EncodeStartElement(U32(0), <<RawAttr(1, 2)>>)
         \o EncodeEndElement(U32(0))
    ELSE IF a.family = "long"
    THEN EncodeLongPool(a.body[1])
    ELSE IF a.family = "single"
    THEN EncodePoolAligned(<<<<97>>>>, a.utf8)
         \o EncodeStartElement(U32(0), <<>>)
         \o EncodeEndElement(U32(0))
    ELSE IF a.family = "truncated"
    THEN Prefix(TruncatedBase(a), Len(TruncatedBase(a)) - a.cut)
    ELSE IF a.family = "malformed"
    THEN EncodePoolAligned(DocStrings, a.utf8)
         \o ChunkBytes("a")
         \o MalformedBytes(a.body[1])
    ELSE IF a.family = "index"
    THEN EncodePoolAligned(DocStrings, a.utf8)
         \o EncodeStartElement(U32(1), <<RawAttr(a.prefix, a.uri)>>)
    ELSE LE16(ResNullType)
         \o EncodePoolRaw([hi |-> 65535, lo |-> 65534], <<U32(0)>>, Zeros(4))

Init ==
    /\ arg \in DocArgs
    /\ buf = DocBytes(arg)
    /\ pos = 0
    /\ status = "running"
    /\ err = ""
    /\ ret = NoRet
    /\ build \in {"debug", "release"}
    /\ global_strings = <<>>
    /\ namespace_prefixes = EmptyMap
    /\ nodes = <<RootElement>>
    /\ stack = <<1>>
    /\ tick = 0

\* line 299: the tag the loop condition reads at the cursor
Peek == parse_block_type(buf, pos)

\* the loop body runs for a tag of the enumeration
Dispatch(tag) == status = "running" /\ Peek.kind = "Ok" /\ Peek.v = tag

\* an arm whose failure is logged and the loop goes on with the next tag
Dispatched_continue(call, r, element, name) ==
    /\ pos' = r.pos
    /\ status' = "running"
    /\ err' = r.err
    /\ ret' = [call |-> call, at |-> pos, tag |-> r.tag,
               element |-> element, name |-> name]
    /\ tick' = 1 - tick
    /\ UNCHANGED <<buf, arg, build>>

\* what every arm leaves behind: the cursor, the outcome, the call's record
Dispatched(call, r, element, name) ==
    /\ pos' = r.pos
    /\ status' = IF r.ok THEN "running" ELSE "panic"
    /\ err' = r.err
    /\ ret' = [call |-> call, at |-> pos, tag |-> r.tag,
               element |-> element, name |-> name]
    /\ tick' = 1 - tick
    /\ UNCHANGED <<buf, arg, build>>

\* line 299: the read of the tag fails, the loop ends, line 344 returns root
EndOfInput ==
    /\ status = "running"
    /\ Peek.kind = "Err"
    /\ status' = "done"
    /\ ret' = [call |-> "parse_xml", at |-> pos, tag |-> 0,
               element |-> nodes[1], name |-> <<>>]
    /\ pos' = Peek.pos
    /\ tick' = 1 - tick
    /\ UNCHANGED <<buf, arg, build, err, global_strings, namespace_prefixes,
                   nodes, stack>>

\* line 299: parse_block_type panics on a value outside the enumeration
UnknownBlockType ==
    /\ status = "running"
    /\ Peek.kind = "Panic"
    /\ Dispatched("parse_block_type",
                  [ok |-> FALSE, err |-> "UnknownChunkType", tag |-> Peek.v,
                   pos |-> Peek.pos], NoElement, <<>>)
    /\ UNCHANGED <<global_strings, namespace_prefixes, nodes, stack>>

\* line 301 with the open elements closed by a Null tag
NullChunk_closing ==
    /\ Dispatch(ResNullType)
    /\ Dispatched("continue",
                  [ok |-> TRUE, err |-> "", tag |-> ResNullType, pos |-> Peek.pos],
                  NoElement, <<>>)
    /\ stack' = <<1>>
    /\ UNCHANGED <<global_strings, namespace_prefixes, nodes>>

\* line 301
NullChunk ==
    /\ Dispatch(ResNullType)
    /\ Dispatched("continue",
                  [ok |-> TRUE, err |-> "", tag |-> ResNullType, pos |-> Peek.pos],
                  NoElement, <<>>)
    /\ UNCHANGED <<global_strings, namespace_prefixes, nodes, stack>>

\* lines 302-304 with a fresh list handed to every pool
StringPoolChunk_replace ==
    /\ Dispatch(ResStringPoolType)
    /\ \E r \in {StringPool_from_buff(buf, Peek.pos, <<>>, build)} :
        /\ Dispatched("StringPool::from_buff", r, NoElement, <<>>)
        /\ global_strings' = r.gs
    /\ UNCHANGED <<namespace_prefixes, nodes, stack>>

\* lines 302-304
StringPoolChunk ==
    /\ Dispatch(ResStringPoolType)
    /\ \E r \in {StringPool_from_buff(buf, Peek.pos, global_strings, build)} :
        /\ Dispatched("StringPool::from_buff", r, NoElement, <<>>)
        /\ global_strings' = r.gs
    /\ UNCHANGED <<namespace_prefixes, nodes, stack>>

\* lines 305-307
ResTableChunk ==
    /\ Dispatch(ResTableType)
    /\ \E r \in {ResTable_parse(buf, Peek.pos)} :
        Dispatched("ResTable::parse", r, NoElement, <<>>)
    /\ UNCHANGED <<global_strings, namespace_prefixes, nodes, stack>>

\* lines 308-311
XmlChunk ==
    /\ Dispatch(ResXmlType)
    /\ \E r \in {ChunkHeader_from_buff(buf, Peek.pos - 2, ResXmlType)} :
        Dispatched("ChunkHeader::from_buff", r, NoElement, <<>>)
    /\ UNCHANGED <<global_strings, namespace_prefixes, nodes, stack>>

\* lines 312-314
StartNamespaceChunk ==
    /\ Dispatch(ResXmlStartNamespaceType)
    /\ \E r \in {parse_start_namespace(buf, Peek.pos, global_strings,
                                       namespace_prefixes)} :
        /\ Dispatched("parse_start_namespace", r, NoElement, <<>>)
        /\ namespace_prefixes' = r.namespaces
    /\ UNCHANGED <<global_strings, nodes, stack>>

\* lines 315-317 with the table emptied when a namespace ends
EndNamespaceChunk_scoped ==
    /\ Dispatch(ResXmlEndNamespaceType)
    /\ \E r \in {parse_end_namespace(buf, Peek.pos, global_strings)} :
        Dispatched("parse_end_namespace", r, NoElement, <<>>)
    /\ namespace_prefixes' = EmptyMap
    /\ UNCHANGED <<global_strings, nodes, stack>>

\* lines 315-317
EndNamespaceChunk ==
    /\ Dispatch(ResXmlEndNamespaceType)
    /\ \E r \in {parse_end_namespace(buf, Peek.pos, global_strings)} :
        Dispatched("parse_end_namespace", r, NoElement, <<>>)
    /\ UNCHANGED <<global_strings, namespace_prefixes, nodes, stack>>

\* lines 318-330
StartElementChunk ==
    /\ Dispatch(ResXmlStartElementType)
    /\ \E r \in {parse_start_element(buf, Peek.pos, global_strings,
                                     namespace_prefixes)} :
        IF ~r.ok
        THEN /\ Dispatched("parse_start_element", r, NoElement, <<>>)
             /\ UNCHANGED <<nodes, stack>>
        ELSE \E t \in {start_element(nodes, stack, r.element)} :
             /\ Dispatched("parse_start_element",
                           [ok |-> t.ok, err |-> t.err, tag |-> r.tag, pos |-> r.pos],
                           r.element, <<>>)
             /\ nodes' = t.nodes
             /\ stack' = t.stack
    /\ UNCHANGED <<global_strings, namespace_prefixes>>

\* lines 331-334 with the namespaces dropped when an element ends
EndElementChunk_unscoping ==
    /\ Dispatch(ResXmlEndElementType)
    /\ \E r \in {parse_end_element(buf, Peek.pos, global_strings)} :
        /\ Dispatched("parse_end_element", r, NoElement, r.name)
        /\ stack' = IF r.ok THEN end_element(stack) ELSE stack
    /\ namespace_prefixes' = EmptyMap
    /\ UNCHANGED <<global_strings, nodes>>

\* lines 331-334
EndElementChunk ==
    /\ Dispatch(ResXmlEndElementType)
    /\ \E r \in {parse_end_element(buf, Peek.pos, global_strings)} :
        /\ Dispatched("parse_end_element", r, NoElement, r.name)
        /\ stack' = IF r.ok THEN end_element(stack) ELSE stack
    /\ UNCHANGED <<global_strings, namespace_prefixes, nodes>>

\* lines 336-338
ResourceMapChunk ==
    /\ Dispatch(ResXmlResourceMapType)
    /\ \E r \in {ResourceMap_from_buff(buf, Peek.pos)} :
        Dispatched("ResourceMap::from_buff", r, NoElement, <<>>)
    /\ UNCHANGED <<global_strings, namespace_prefixes, nodes, stack>>

\* the tags of the arms of lines 301-338
HandledTypes ==
    {ResNullType, ResStringPoolType, ResTableType, ResXmlType,
     ResXmlStartNamespaceType, ResXmlEndNamespaceType, ResXmlStartElementType,
     ResXmlEndElementType, ResXmlResourceMapType}

\* line 340: `_ => { }`
OtherChunk ==
    /\ status = "running"
    /\ Peek.kind = "Ok"
    /\ Peek.v \notin HandledTypes
    /\ Dispatched("other",
                  [ok |-> TRUE, err |-> "", tag |-> Peek.v, pos |-> Peek.pos],
                  NoElement, <<>>)
    /\ UNCHANGED <<global_strings, namespace_prefixes, nodes, stack>>

Next ==
    \/ EndOfInput
    \/ UnknownBlockType
    \/ NullChunk
    \/ StringPoolChunk
    \/ ResTableChunk
    \/ XmlChunk
    \/ StartNamespaceChunk
    \/ EndNamespaceChunk
    \/ StartElementChunk
    \/ EndElementChunk
    \/ ResourceMapChunk
    \/ OtherChunk

Spec == Init /\ [][Next]_vars

\* the loop is a sequential program: it takes its next step
SpecLive == Spec /\ WF_vars(Next)

-----------------------------------------------------------------------------
(* Claims about parse_xml                                                  *)

Returned == status = "done" /\ ret.call = "parse_xml"

Stopped == status \in {"done", "panic"}

\* the namespace chunk of a minimal document names strings of its pool
NamespaceResolves ==
    /\ arg.prefix < Len(MinimalStrings(arg.pool))
    /\ arg.uri < Len(MinimalStrings(arg.pool))

MinimalRoot ==
    [element_type |-> Manifest,
     attributes |-> (Package :> ComExample),
     children |-> <<>>]

\* C1 as stated: the minimal document whose pool holds exactly "manifest",
\* "package", "com.example" (UTF-16 or UTF-8, padded to four bytes), whatever
\* strings its start-namespace chunk names, then start-element "manifest"
\* with one attribute, name index 1, raw value index 2, no namespace, and the
\* end-element: parse_xml returns the root manifest {package: com.example}
\* without children.
C1_AsStated ==
    (arg.family = "minimal" /\ arg.pool = "three" /\ Stopped)
        => /\ Returned
           /\ ret.element = MinimalRoot
           /\ nodes = <<MinimalRoot>>

\* C1: the minimal document whose start-namespace chunk names strings of its
\* pool (the pool "manifest", "package", "com.example" followed by "android"
\* and "urn:android", declared by the indices 3 and 4, or the pool of three
\* with two of its own strings) never fails, and parse_xml returns the root
\* manifest {package: com.example} without children.
C1_MinimalDocument ==
    (arg.family = "minimal" /\ NamespaceResolves /\ Stopped)
        => /\ Returned
           /\ ret.element = MinimalRoot
           /\ nodes = <<MinimalRoot>>

C1_Witness ==
    /\ arg.family = "minimal" /\ arg.pool = "android" /\ arg.xml /\ arg.utf8
    /\ arg.prefix = 3 /\ arg.uri = 4
    /\ Returned
    /\ global_strings = <<Manifest, Package, ComExample, Android, AndroidUri>>
    /\ namespace_prefixes = (AndroidUri :> Android)
    /\ ret.element = MinimalRoot
    /\ stack = <<>>

\* a loop iteration that decoded a start-element chunk
StartElementStep ==
    /\ tick' # tick
    /\ ret'.call = "parse_start_element"
    /\ ret'.element # NoElement

\* HashMap::extend: the entries of more added to map
Extend(map, more) ==
    [k \in DOMAIN map \cup DOMAIN more |-> IF k \in DOMAIN more THEN more[k] ELSE map[k]]

\* C2 as stated: a start-element "manifest" decoded while the stack holds
\* exactly the root adds the decoded attributes to the root's attribute
\* map, creates no node, appends no child and does not push.
C2_MergedIntoRoot ==
    [][(StartElementStep /\ ret'.element.element_type = Manifest /\ stack = <<1>>)
        => /\ status' = "running"
           /\ nodes' = [nodes EXCEPT ![1].attributes =
                            Extend(@, ret'.element.attributes)]
           /\ stack' = stack]_vars

\* C2 as the code has it: a start-element "manifest" decoded while the
\* stack holds exactly the root replaces the root's attribute map by the
\* decoded attributes, creates no node, appends no child and does not push.
C2_ReplacesRootAttributes ==
    [][(StartElementStep /\ ret'.element.element_type = Manifest /\ stack = <<1>>)
        => /\ status' = "running"
           /\ nodes' = [nodes EXCEPT ![1].attributes = ret'.element.attributes]
           /\ stack' = stack]_vars

\* a second "manifest" at the root: the first one's attribute k is gone
C2_Witness ==
    /\ arg.family = "chunks"
    /\ arg.body = <<"manifest_k", "manifest_v">>
    /\ ret.call = "parse_start_element"
    /\ status = "running"
    /\ ret.element.attributes = (<<118>> :> <<107>>)
    /\ nodes = <<[RootElement EXCEPT !.attributes = (<<118>> :> <<107>>)]>>
    /\ stack = <<1>>

\* C3 as stated: every other decoded start-element (a "manifest" below the
\* root included) creates a node, appends it as the last child of the stack
\* top, pushes it, and changes no other node.
C3_OtherStartElementsAddChild ==
    [][(StartElementStep /\ ~(ret'.element.element_type = Manifest /\ stack = <<1>>))
        => /\ status' = "running"
           /\ stack # <<>>
           /\ nodes' = Append([nodes EXCEPT ![stack[Len(stack)]].children =
                                    Append(@, Len(nodes) + 1)], ret'.element)
           /\ stack' = Append(stack, Len(nodes) + 1)]_vars

\* a loop iteration that ran the end-element arm
EndElementStep == tick' # tick /\ ret'.call = "parse_end_element"

\* C4 as stated: an end-element chunk pops exactly one frame, whatever the
\* decoded name, and on an empty stack the decode fails.
C4_EndElementPopsOrFails ==
    [][EndElementStep
        => IF stack = <<>>
           THEN status' = "panic"
           ELSE status' = "running"
                    => stack' = SubSeq(stack, 1, Len(stack) - 1)]_vars

\* the two bytes at the cursor are a value outside the enumeration
UnknownTagAhead ==
    /\ status = "running"
    /\ read_u16(buf, pos).ok
    /\ read_u16(buf, pos).v \notin ChunkType

\* C8: when the loop reads a tag outside the ChunkType enumeration the
\* decode fails with the unknown-chunk-type error carrying that tag: the
\* chunk is not skipped, the tree is left as it was, no root is returned.
C8_UnknownTagFails ==
    [][UnknownTagAhead
        => /\ status' = "panic"
           /\ err' = "UnknownChunkType"
           /\ ret'.call = "parse_block_type"
           /\ ret'.tag = read_u16(buf, pos).v
           /\ UNCHANGED <<nodes, stack, global_strings, namespace_prefixes>>]_vars

C8_Witness ==
    /\ status = "panic"
    /\ err = "UnknownChunkType"
    /\ ret.call = "parse_block_type"
    /\ ret.tag = 5
    /\ ret.at > 0
    /\ Len(nodes) > 1

\* C9 as stated: on every input parse_xml eventually stops, failing or
\* returning the root.
C9_EventuallyStops == <>Stopped

-----------------------------------------------------------------------------
(* Claims about the entries of a string pool                               *)

NonEmpty(s) == s # <<>>

\* the entries of a pool that are not empty, in on-disk order
NonEmptyEntries(strs) == SelectSeq(strs, NonEmpty)

\* C11: an entry of length 0 is not appended: the string list grows by the
\* non-empty entries of the pool only, in on-disk order, and an index past
\* the prior strings resolves to the non-empty entry of that rank.
C11_EmptyEntriesSkipped ==
    PoolCallDone
        => /\ status = "done"
           /\ global_strings = arg.prior \o NonEmptyEntries(arg.strings)
           /\ \A i \in 1 .. Len(NonEmptyEntries(arg.strings)) :
                Get(global_strings, U32(Len(arg.prior) + i - 1))
                    = [ok |-> TRUE, v |-> NonEmptyEntries(arg.strings)[i]]
           /\ ~Get(global_strings,
                   U32(Len(arg.prior) + Len(NonEmptyEntries(arg.strings)))).ok

\* an empty entry between two others: index 1 is the third on-disk entry
C11_Witness ==
    /\ PoolCallDone /\ status = "done"
    /\ ~arg.utf8 /\ arg.prior = <<>>
    /\ arg.strings = <<<<72, 105>>, <<>>, <<233>>>>
    /\ global_strings = <<<<72, 105>>, <<233>>>>
    /\ Get(global_strings, U32(1)).v = <<233>>

IsPrefix(s, t) == Len(s) <= Len(t) /\ SubSeq(t, 1, Len(s)) = s

\* C12: a string-pool chunk appends to the document's string list: the list
\* before any step is a prefix of the list after it, so every index that
\* resolved before a later pool chunk resolves to the same string after it.
C12_PoolsAppend ==
    [][/\ IsPrefix(global_strings, global_strings')
       /\ \A i \in 0 .. Len(global_strings) - 1 :
            Get(global_strings', U32(i)) = Get(global_strings, U32(i))]_vars

\* a second pool chunk was decoded: its string follows the first pool's, and
\* the element decoded after it takes its name at index 1 as before
C12_Witness ==
    /\ arg.family = "chunks"
    /\ arg.body = <<"pool", "a">>
    /\ global_strings = Append(DocStrings, <<120>>)
    /\ ret.call = "parse_start_element"
    /\ ret.element.element_type = DocStrings[2]

-----------------------------------------------------------------------------
(* SpecElement: parse_start_element applied to one start-element chunk     *)
(* with one attribute, the strings of the documents' pool decoded before.  *)

\* the namespace field: absent, the uri "u", the string "p" that is never
\* declared as a uri, an index past the strings
ElementNamespaces == {NoValue, U32(5), U32(4), U32(9)}

ElementNames == {U32(2), U32(9)}

ElementRawValues == {NoValue, U32(3), U32(9)}

\* the sixteen types and a byte that is none of them
ElementDataTypes == DataValueType \cup {9}

ElementData ==
    {U32(0), U32(1), U32(5), U32(10), U32(255), U32(256), U32(4660), U32(43981),
     U32(65535), [hi |-> 1, lo |-> 0], [hi |-> 32513, lo |-> 1],
     [hi |-> 65535, lo |-> 65534], NoValue}

InitElement ==
    /\ arg \in [ns : ElementNamespaces, name : ElementNames, raw : ElementRawValues,
                data_type : ElementDataTypes, data : ElementData,
                declared : BOOLEAN]
    /\ buf = EncodeStartElement(U32(1), <<[ns |-> arg.ns, name |-> arg.name,
                                          raw |-> arg.raw,
                                          data_type |-> arg.data_type,
                                          data |-> arg.data]>>)
    /\ pos = 2
    /\ status = "ready"
    /\ err = ""
    /\ ret = NoRet
    /\ build = "release"
    /\ global_strings = DocStrings
    /\ namespace_prefixes =
            IF arg.declared THEN Insert(EmptyMap, DocStrings[6], DocStrings[5])
            ELSE EmptyMap
    /\ nodes = <<RootElement>>
    /\ stack = <<1>>
    /\ tick = 0

ElementFromBuff ==
    /\ status = "ready"
    /\ \E r \in {parse_start_element(buf, pos, global_strings, namespace_prefixes)} :
       /\ ret' = [call |-> "parse_start_element", ok |-> r.ok, element |-> r.element]
       /\ pos' = r.pos
       /\ status' = IF r.ok THEN "done" ELSE "panic"
       /\ err' = r.err
    /\ UNCHANGED <<buf, arg, global_strings, namespace_prefixes, nodes, stack,
                   build, tick>>

NextElement == ElementFromBuff

SpecElement == InitElement /\ [][NextElement]_vars

ElementCallDone == status \in {"done", "panic"} /\ ret.call = "parse_start_element"

\* the one attribute of the decoded element
AttrKey == CHOOSE k \in DOMAIN ret.element.attributes : TRUE

AttrValue == ret.element.attributes[AttrKey]

\* the value of a digit character in the base, -1 when it is none
DigitValue(c, base) ==
    IF c \in 48 .. 57 THEN c - 48
    ELSE IF base = 16 /\ c \in 97 .. 102 THEN c - 87
    ELSE -1

\* acc * base + d on 32 bits, hi = -1 when it does not fit or d is no digit
MulAdd(acc, base, d) ==
    LET lo == acc.lo * base + d
        hi == acc.hi * base + (lo \div 65536)
    IN  IF d < 0 \/ acc.hi < 0 \/ hi > 65535 THEN [hi |-> -1, lo |-> 0]
        ELSE [hi |-> hi, lo |-> lo % 65536]

\* the number a text denotes in the base
RECURSIVE ValueOf(_, _, _)
ValueOf(text, base, acc) ==
    IF text = <<>> THEN acc
    ELSE ValueOf(Tail(text), base, MulAdd(acc, base, DigitValue(Head(text), base)))

\* text is the numeral of data in the base: digits only (lowercase in hex),
\* no leading zero, and it denotes data
Numeral(text, base, data) ==
    /\ text # <<>>
    /\ Len(text) > 1 => text[1] # 48
    /\ ValueOf(text, base, U32(0)) = data

After(text, n) == SubSeq(text, n + 1, Len(text))

\* C13: with the sentinel as raw value, a Reference renders as "type1/" and
\* the decimal numeral of data, an IntDec as the decimal numeral, an IntHex
\* as "0x" and the lowercase hex numeral without leading zeros (255 gives
\* "0xff"), an IntBoolean as "false" for 0 and "true" for any other data.
C13_TypedValueRendering ==
    (ElementCallDone /\ status = "done" /\ arg.raw = NoValue)
        => /\ arg.data_type = TypeReference
                => /\ SubSeq(AttrValue, 1, 6) = <<116, 121, 112, 101, 49, 47>>
                   /\ Numeral(After(AttrValue, 6), 10, arg.data)
           /\ arg.data_type = TypeIntDec => Numeral(AttrValue, 10, arg.data)
           /\ arg.data_type = TypeIntHex
                => /\ SubSeq(AttrValue, 1, 2) = <<48, 120>>
                   /\ Numeral(After(AttrValue, 2), 16, arg.data)
           /\ (arg.data_type = TypeIntHex /\ arg.data = U32(255))
                => AttrValue = <<48, 120, 102, 102>>
           /\ arg.data_type = TypeIntBoolean
                => AttrValue = IF arg.data = U32(0)
                               THEN <<102, 97, 108, 115, 101>>
                               ELSE <<116, 114, 117, 101>>

\* IntBoolean 5 rendered "true"
C13_Witness ==
    /\ ElementCallDone /\ status = "done"
    /\ arg.raw = NoValue
    /\ arg.data_type = TypeIntBoolean
    /\ arg.data = U32(5)
    /\ AttrValue = <<116, 114, 117, 101>>

\* C14: the value of an attribute is the string at index raw_value when
\* raw_value is not 0xFFFFFFFF, whatever the typed value holds, and the
\* rendering of the typed value when it is.
C14_RawValueBeforeTypedValue ==
    (ElementCallDone /\ status = "done")
        => AttrValue = IF arg.raw # NoValue
                       THEN DocStrings[arg.raw.lo + 1]
                       ELSE render_typed_value(arg.data_type, arg.data)

\* a raw value next to a typed value that would render as "0xff"
C14_Witness ==
    /\ ElementCallDone /\ status = "done"
    /\ arg.raw = U32(3)
    /\ arg.data_type = TypeIntHex
    /\ arg.data = U32(255)
    /\ AttrValue = DocStrings[4]

\* the namespace field names a string that is no key of the namespace table
NamespaceUndeclared ==
    /\ arg.ns # NoValue
    /\ Get(DocStrings, arg.ns).ok
    /\ Get(DocStrings, arg.ns).v \notin DOMAIN namespace_prefixes

\* C15: the key of an attribute is "<prefix>:<name>" when its namespace
\* field is not 0xFFFFFFFF, the prefix being the table's entry for the uri
\* string at that index, and "<name>" when it is; a namespace field whose
\* uri has no entry in the table fails the decode.
C15_AttributeKey ==
    ElementCallDone
        => /\ NamespaceUndeclared
                => /\ status = "panic"
                   /\ arg.data_type \in DataValueType => err = "UnresolvedNamespace"
           /\ status = "done"
                => IF arg.ns = NoValue
                   THEN AttrKey = DocStrings[arg.name.lo + 1]
                   ELSE /\ DocStrings[arg.ns.lo + 1] \in DOMAIN namespace_prefixes
                        /\ AttrKey = namespace_prefixes[DocStrings[arg.ns.lo + 1]]
                                        \o <<58>> \o DocStrings[arg.name.lo + 1]

\* the uri "u" declared with the prefix "p": the key is "p:k"
C15_Witness ==
    /\ ElementCallDone /\ status = "done"
    /\ arg.ns = U32(5) /\ arg.declared
    /\ AttrKey = <<112, 58, 107>>

-----------------------------------------------------------------------------
(* Claims about the namespace table and the failures of parse_xml          *)

\* C16: the namespace table is flat: a uri that is a key of the table stays
\* a key in every later step, and an end-namespace chunk leaves the whole
\* table as it was, so a later attribute still resolves the prefix.
C16_NamespacesPersist ==
    [][/\ \A u \in DOMAIN namespace_prefixes : u \in DOMAIN namespace_prefixes'
       /\ (tick' # tick /\ ret'.call = "parse_end_namespace")
            => namespace_prefixes' = namespace_prefixes]_vars

\* the attribute of the element after the end-namespace chunk has key "p:k"
C16_Witness ==
    /\ arg.family = "chunks"
    /\ arg.body = <<"start_ns", "end_ns", "a_typed">>
    /\ ret.call = "parse_start_element"
    /\ status = "running"
    /\ <<112, 58, 107>> \in DOMAIN ret.element.attributes
    /\ namespace_prefixes = Insert(EmptyMap, DocStrings[6], DocStrings[5])

\* the u32 field at an offset of the chunk whose tag is at the cursor
FieldAt(offset) == read_u32(buf, pos + offset).v

\* a chunk with this tag and a valid header lies at the cursor, its first
\* size bytes inside the buffer
ChunkAhead(tag, size) ==
    /\ status = "running"
    /\ ChunkHeader_from_buff(buf, pos, tag).ok
    /\ pos + size <= Len(buf)

Missing(index) == ~Small(index) \/ Value(index) >= Len(global_strings)

\* the first string index the chunk at the cursor uses has no string: the
\* prefix or uri of a start-namespace, the name of a start- or end-element,
\* the name or raw value of the first attribute (no namespace, known type)
\* of a start-element whose own name resolves
MissingIndexAhead ==
    \/ /\ ChunkAhead(ResXmlStartNamespaceType, 24)
       /\ Missing(FieldAt(16)) \/ Missing(FieldAt(20))
    \/ /\ ChunkAhead(ResXmlStartElementType, 36)
       /\ Missing(FieldAt(20))
    \/ /\ ChunkAhead(ResXmlEndElementType, 24)
       /\ Missing(FieldAt(20))
    \/ /\ ChunkAhead(ResXmlStartElementType, 56)
       /\ ~Missing(FieldAt(20))
       /\ read_u16(buf, pos + 28).v >= 1
       /\ ByteAt(buf, pos + 51) \in DataValueType
       /\ FieldAt(36) = NoValue
       /\ \/ Missing(FieldAt(40))
          \/ FieldAt(44) # NoValue /\ Missing(FieldAt(44))

\* C17: a string index of a start-namespace, start-element or end-element
\* chunk that has no string in the list at that moment fails the decode as
\* a string index out of range; no node, string or namespace comes of it.
C17_MissingStringIndexFails ==
    [][MissingIndexAhead
        => /\ status' = "panic"
           /\ err' = "StringIndexOutOfRange"
           /\ UNCHANGED <<nodes, stack, global_strings, namespace_prefixes>>]_vars

\* an attribute whose raw value index is past the six strings of the pool
C17_Witness ==
    /\ arg.family = "index" /\ arg.prefix = 2 /\ arg.uri = 9
    /\ status = "panic"
    /\ err = "StringIndexOutOfRange"
    /\ ret.call = "parse_start_element"
    /\ global_strings = DocStrings
    /\ nodes = <<RootElement>>

\* the tags whose arm starts with the decoding of the chunk header
HeaderTypes ==
    {ResStringPoolType, ResXmlType, ResXmlResourceMapType,
     ResXmlStartNamespaceType, ResXmlEndNamespaceType,
     ResXmlStartElementType, ResXmlEndElementType}

\* the chunk at the cursor breaks an invariant of the header
MalformedHeaderAhead ==
    /\ status = "running"
    /\ Peek.kind = "Ok"
    /\ Peek.v \in HeaderTypes
    /\ ~ChunkHeader_from_buff(buf, pos, Peek.v).ok

\* C19: a failure of any chunk decoder ends the decode: the step that fails
\* panics, nothing happens after it, and the root is returned only by a run
\* in which no decoder failed.
C19_FailureAborts ==
    [][/\ err' # "" => status' = "panic" /\ ret'.call # "parse_xml"
       /\ MalformedHeaderAhead \/ MissingIndexAhead
            => status' = "panic" /\ nodes' = nodes
       /\ status = "panic" => UNCHANGED vars
       /\ status' = "done" => status = "running" /\ err' = ""]_vars

\* the third chunk breaks a size invariant after an element joined the
\* tree: the decode ends there, the tree of two nodes is not returned
C19_Witness ==
    /\ arg.family = "malformed"
    /\ arg.body = <<"chunk_below_header">>
    /\ status = "panic"
    /\ err = "ChunkSmallerThanHeader"
    /\ ret.call = "parse_start_element"
    /\ Len(nodes) = 2

\* the bytes at the end of an untruncated document that no decoder reads:
\* the terminator of the last string of a pool
Unread(a) == IF a.body # <<>> THEN 0 ELSE IF a.utf8 THEN 1 ELSE 2

\* the cut removed bytes a decoder needs
NeedsCutBytes == arg.family = "truncated" /\ arg.cut > Unread(arg)

\* C20: a decode that needs bytes cut from the end of the buffer ends as a
\* truncated-input failure, never in a normal return.
C20_TruncationFails ==
    (NeedsCutBytes /\ Stopped) => (status = "panic" /\ err = "TruncatedInput")

-----------------------------------------------------------------------------
(* Claims about the shape of the tree and of the stack.                    *)

\* the children of a node, as a set
ChildrenOf(p) == {nodes[p].children[i] : i \in 1 .. Len(nodes[p].children)}

\* the places (parent, position) where a node is listed as a child
Places(c) ==
    {pi \in (1 .. Len(nodes)) \X (1 .. Len(nodes)) :
        /\ pi[2] <= Len(nodes[pi[1]].children)
        /\ nodes[pi[1]].children[pi[2]] = c}

\* the nodes reached from a set of nodes in one to n steps down the tree
RECURSIVE Below(_, _)
Below(from, n) ==
    IF n = 0 THEN {}
    ELSE Let(UNION {ChildrenOf(p) : p \in from},
             LAMBDA next : next \cup Below(next, n - 1))

\* C21: the elements form a tree under the synthetic root: every node that a
\* start-element chunk created is listed as a child exactly once, is reached
\* from the root, and no node is below itself; the root is nobody's child.
C21_ElementsFormTree ==
    /\ Places(1) = {}
    /\ \A p \in 1 .. Len(nodes) : ChildrenOf(p) \subseteq 2 .. Len(nodes)
    /\ \A c \in 2 .. Len(nodes) : Cardinality(Places(c)) = 1
    /\ \A c \in 2 .. Len(nodes) : c \in Below({1}, Len(nodes))
    /\ \A c \in 1 .. Len(nodes) : c \notin Below({c}, Len(nodes))

\* a child of the root with a child of its own, which has been closed
C21_Witness ==
    /\ arg.family = "chunks"
    /\ arg.body = <<"a", "a", "end">>
    /\ ret.call = "parse_end_element"
    /\ Len(nodes) = 3
    /\ nodes[1].children = <<2>>
    /\ nodes[2].children = <<3>>
    /\ stack = <<1, 2>>

-----------------------------------------------------------------------------
(* Claims about the flags of a string pool (SpecPool).                     *)

\* C22: is_sorted is bit 0 of the flags word and is_utf8 is bit 8, whatever
\* the other bits of the word are.
C22_FlagBits ==
    (PoolCallDone /\ status = "done")
        => /\ ret.pool.is_sorted = arg.sorted
           /\ ret.pool.is_utf8 = arg.utf8

\* the flags word 0xFE01: bit 0 set, bit 8 clear, bits 9-15 set
C22_Witness ==
    /\ PoolCallDone /\ status = "done"
    /\ arg.sorted /\ ~arg.utf8 /\ arg.other = 65024
    /\ read_u32(buf, arg.lead + 16).v = U32(65025)
    /\ ret.pool.is_sorted /\ ~ret.pool.is_utf8

-----------------------------------------------------------------------------
(* Claims about the dispatch loop of parse_xml.                            *)

\* a tag of the enumeration other than Null is at the cursor
KnownTagAhead ==
    /\ status = "running"
    /\ Peek.kind = "Ok"
    /\ Peek.v \in ChunkType \ {ResNullType}

\* C23: for every tag of the enumeration other than Null the loop runs a
\* decoder that validates the 8-byte header against that tag: a header that
\* fails the validation fails the decode, and when the loop goes on the next
\* tag is not read from inside the header.
C23_KnownTagsValidated ==
    [][KnownTagAhead
        => /\ ~ChunkHeader_from_buff(buf, pos, Peek.v).ok => status' = "panic"
           /\ status' = "running" => pos' \notin (pos + 1) .. (pos + 7)]_vars

\* the same for the tags that have an arm of their own in the loop
C23_HandledTagsValidated ==
    [][KnownTagAhead /\ Peek.v \in HandledTypes
        => /\ ~ChunkHeader_from_buff(buf, pos, Peek.v).ok => status' = "panic"
           /\ status' = "running" => pos' \notin (pos + 1) .. (pos + 7)]_vars

\* the tags whose decoders read a chunk of the announced size
SizedTypes ==
    {ResStringPoolType, ResXmlResourceMapType,
     ResXmlStartNamespaceType, ResXmlEndNamespaceType,
     ResXmlStartElementType, ResXmlEndElementType}

\* the header of the chunk at the cursor, when a sized chunk with a valid
\* header is there
SizedChunkAhead ==
    /\ status = "running"
    /\ Peek.kind = "Ok"
    /\ Peek.v \in SizedTypes
    /\ ChunkHeader_from_buff(buf, pos, Peek.v).ok

\* C24: after the decoding of a string-pool, namespace, element or
\* resource-map chunk with a valid header the loop reads the next tag at
\* chunk_start + chunk_size.
C24_NextTagAtChunkEnd ==
    [][(SizedChunkAhead /\ status' = "running")
        => Let(ChunkHeader_from_buff(buf, pos, Peek.v).header.chunk_size,
               LAMBDA chunk_size :
                   chunk_size.hi < 16384 /\ pos' = pos + Value(chunk_size))]_vars

\* the two bytes at the cursor are the Null tag
NullTagAhead ==
    /\ status = "running"
    /\ pos + 2 <= Len(buf)
    /\ ByteAt(buf, pos) = 0 /\ ByteAt(buf, pos + 1) = 0

\* C25: a Null tag is skipped: the loop goes on behind its two bytes without
\* an error and with the strings, the namespaces, the tree and the stack as
\* they were.
C25_NullIsSkipped ==
    [][NullTagAhead
        => /\ status' = "running" /\ err' = ""
           /\ pos' = pos + 2
           /\ UNCHANGED <<global_strings, namespace_prefixes, nodes, stack>>]_vars

\* a Null tag skipped between a start-element and its end-element
C25_Witness ==
    /\ arg.family = "chunks" /\ arg.pool = "doc" /\ ~arg.utf8
    /\ arg.body = <<"a", "null", "end">>
    /\ ret.call = "continue"
    /\ ret.at = pos - 2
    /\ Len(nodes) = 2
    /\ stack = <<1, 2>>
    /\ global_strings = DocStrings

-----------------------------------------------------------------------------
(* Claims about the strings of a pool decoded by parse_xml.                *)

\* C26: an entry with a long length is not decoded to another string: every
\* string the decode appends for it is the text of the entry.
C26_LongStringsNotMisdecoded ==
    arg.family = "long"
        => \A i \in 1 .. Len(global_strings) :
              global_strings[i] = LongText(arg.body[1])

-----------------------------------------------------------------------------
(* Claims about the open-element stack.                                    *)

\* the elements whose frame is open
Open(st) == {st[i] : i \in 1 .. Len(st)}

\* C27: an element whose frame has been popped is frozen: it never gets a
\* frame again and its element_type, attributes and children stay as they
\* are for the rest of the decode.
C27_ClosedElementsFrozen ==
    [][\A n \in 1 .. Len(nodes) :
          n \notin Open(stack)
            => /\ n \notin Open(stack')
               /\ Len(nodes') >= n
               /\ nodes'[n] = nodes[n]]_vars

\* an element closed by its end-element, then a sibling added by the next
\* start-element: the closed element is as it was
C27_Witness ==
    /\ arg.family = "chunks" /\ arg.pool = "doc" /\ ~arg.utf8
    /\ arg.body = <<"a", "end", "a">>
    /\ ret.call = "parse_start_element"
    /\ Len(nodes) = 3
    /\ stack = <<1, 3>>
    /\ nodes[1].children = <<2, 3>>
    /\ nodes[2] = [element_type |-> <<97>>, attributes |-> EmptyMap,
                   children |-> <<>>]

\* C28: in every state of the decode the stack is non-empty and its bottom
\* entry is the synthetic root.
C28_StackHoldsRoot == stack # <<>> /\ stack[1] = 1

-----------------------------------------------------------------------------
(* Claims about what each arm of the loop leaves alone.                    *)

\* C29: string-pool, resource-map, XML-header, start-namespace and
\* end-namespace chunks leave the tree and the stack as they are;
\* start-element and end-element chunks leave the strings and the namespace
\* table as they are.
C29_FrameEffects ==
    [][(status = "running" /\ Peek.kind = "Ok")
        => /\ Peek.v \in {ResStringPoolType, ResXmlResourceMapType, ResXmlType,
                          ResXmlStartNamespaceType, ResXmlEndNamespaceType}
                => UNCHANGED <<nodes, stack>>
           /\ Peek.v \in {ResXmlStartElementType, ResXmlEndElementType}
                => UNCHANGED <<global_strings, namespace_prefixes>>]_vars

\* an end-element decoded with a namespace declared and an element open
C29_Witness ==
    /\ arg.family = "chunks" /\ arg.pool = "doc" /\ ~arg.utf8
    /\ arg.body = <<"start_ns", "a", "end">>
    /\ ret.call = "parse_end_element"
    /\ status = "running"
    /\ stack = <<1>>
    /\ Len(nodes) = 2
    /\ global_strings = DocStrings
    /\ namespace_prefixes = Insert(EmptyMap, DocStrings[6], DocStrings[5])

-----------------------------------------------------------------------------
(* Claims about the seek of StringPool::from_buff.                         *)

\* a string pool with a valid header, its five fields and its table of
\* offsets is at the cursor
PoolAhead ==
    /\ status = "running"
    /\ Peek.kind = "Ok"
    /\ Peek.v = ResStringPoolType
    /\ ChunkHeader_from_buff(buf, pos, ResStringPoolType).ok
    /\ pool_fields(buf, pos + 8).ok
    /\ read_table(buf, pos + 28, pool_fields(buf, pos + 8).string_count).ok

\* the 32-bit sum chunk_start + strings_start + offset has no carry
SumExact(chunk_start, strings_start, offset) ==
    Let(Add32(U32(chunk_start), strings_start), LAMBDA s1 :
        /\ ~s1.carry
        /\ ~Add32([hi |-> s1.hi, lo |-> s1.lo], offset).carry)

\* C30: the seek position of every entry of a pool is the exact sum
\* chunk_start + strings_start + offset: the sum does not wrap and the
\* cursor is not set before the start of the pool.
C30_SeekSumNeverWraps ==
    PoolAhead
        => Let(pool_fields(buf, pos + 8), LAMBDA f :
           Let(read_table(buf, pos + 28, f.string_count).v, LAMBDA offsets :
               \A i \in 1 .. Len(offsets) :
                  /\ SumExact(pos, f.strings_start, offsets[i])
                  /\ current_start(pos, f.strings_start, offsets[i], build).ok
                  /\ Let(current_start(pos, f.strings_start, offsets[i], build).v,
                         LAMBDA v : ~Small(v) \/ Value(v) >= pos)))

====
